---- MODULE Spec2Model ----
(***************************************************************************)
(* A model of the reminder scheduler and dispatcher of the WhatsApp        *)
(* clinical-trial assistant (backend/reminder_service.py), of its caller   *)
(* handle_receipt (backend/media_service.py) and of the send capability    *)
(* (backend/utils.py); of the conversation workflows (backend/fsm.py,      *)
(* backend/fsm_manager.py) and the webhook that drives them                *)
(* (backend/gateway.py); and of the in-memory StateMachine workflows       *)
(* (Whatsapp/state.py, Whatsapp/workflow.py) with their router             *)
(* (Whatsapp/router.py), of the receipt-upload webhook (gateway.py) and    *)
(* of the duplicate check (backend/security.py).                           *)
(*                                                                         *)
(* Time is an integer number of minutes (all datetimes of the code are     *)
(* timezone-aware UTC instants; isoformat() of such instants is injective  *)
(* and order preserving, so an instant stands for its ISO string). Two     *)
(* calls made at the same value of now are calls whose datetime.now()      *)
(* agree.                                                                  *)
(* The notifications table is a sequence of rows; a row's id is its index. *)
(*                                                                         *)
(* Specifications:                                                         *)
(*   Spec   the dispatcher's life cycle, one dispatcher, a store that      *)
(*          answers;                                                       *)
(*   SpecF  the same with store operations that may raise;                 *)
(*   SpecS  schedule_reminder, one call at a time, over its inputs;        *)
(*   SpecR  handle_receipt and the delivery of its reminders;              *)
(*   SpecC  concurrent schedule_reminder calls;                            *)
(*   SpecD  two dispatcher instances on the same table;                    *)
(*   SpecQ  fetch_due_reminders applied to tables of every shape;          *)
(*   SpecL  one dispatcher that keeps cycling on a backlog (fairness);     *)
(*   SpecW  advance_state over the workflows' states and events;           *)
(*   SpecG  get_state and advance_state calls of one participant;          *)
(*   SpecH  the webhook requests of one sender;                            *)
(*   SpecT  the dispatcher with sends that may get no response (fairness); *)
(*   SpecK  the dispatcher's life cycle with a request to stop;            *)
(*   SpecU  the claims_upload StateMachine and its in-memory sessions;     *)
(*   SpecM  run_workflow over both StateMachine workflows;                 *)
(*   SpecN  route_message and the visit_prep StateMachine;                 *)
(*   SpecV  the webhook of gateway.py and its receipt-upload sessions;     *)
(*   SpecP  concurrent is_duplicate calls, statement by statement;         *)
(*   SpecA  two concurrent advance_state calls, request by request;        *)
(*   SpecI  two participants' advance_state calls, interleaved.            *)
(*                                                                         *)
(* The variables stats, lastCall, ev, visits, fetched, lastAdvance,        *)
(* lastGet, lastHook, attempted, lastHandle, lastRoute, origin, alone,     *)
(* lastGw and returned are history: no action's guard or effect on the     *)
(* program's state reads them.                                             *)
(***************************************************************************)
EXTENDS Integers, Sequences, FiniteSets, TLC

\* ------------------------------------------------------------------ bounds
MaxCalls == 2        \* direct schedule_reminder calls
MaxReceipts == 2     \* handle_receipt calls
MaxTicks == 3        \* advances of the clock
MaxFaults == 2       \* store operations that raise (SpecF only)
MaxRows == 3         \* rows of the tables fetch_due_reminders is applied to (SpecQ)
MaxAdvances == 2     \* advance_state calls (SpecW)
MaxRaises == 4       \* sends that raise (SpecL)
MaxChecks == 5       \* is_duplicate calls (SpecP)
MaxHooks == 4        \* webhook requests (SpecH)

\* ------------------------------------------------------- input domains
Participants == {"p1", "p2"}
Messages == {"m1", "m2"}
Templates == {"generic", "visit_created"}
Delays == {1, 2}
VisitDates == {10, 20}
Intents == {"visit_schedule", "receipt_upload", "other"}
Dispatchers == {"d1", "d2"}
Callers == {"c1", "c2"}
MessageIds == {"wamid.1", "wamid.2"}
Limits == 1..3
Workflows == {"claims_upload_workflow", "visit_prep_workflow", "run_workflow",
              "legacy_workflow"}
Events == {"begin", "upload", "validate_ok", "finish", "reset", "confirm",
           "provide_id", "hello"}
Keys == Participants \X Workflows

\* visit_date: datetime | None = None
None == -1

\* ------------------------------------------------------- program constants
RETRY_LIMIT == 3             \* if count <= 3
DISPATCH_LIMIT == 5          \* fetch_due_reminders(limit=5)
TWO_DAYS == 2880             \* delay_minutes=(2 * 24 * 60)
TWO_HOURS == 120             \* delay_minutes=(2 * 60)

VARIABLES
    now,            \* datetime.now(timezone.utc), in minutes
    notifications,  \* the notifications table: Seq of rows, id = index
    next_visit_at,  \* participants.next_visit_at, per participant
    claim_receipts, \* number of rows of claim_receipts (log_receipt)
    dpc,            \* per dispatcher: position inside send_due_reminders
    batch,          \* per dispatcher: the fetched rows not yet processed
    call,           \* per concurrent caller: position inside schedule_reminder
    stats,          \* history, per row: send_text calls, messages delivered, sends the
                    \* API rejected, sends that raised, backoff delays applied
    lastCall,       \* history: the last completed scheduling call
    ev,             \* history: the last status transition of the dispatcher
    visits,         \* history: <<participant, visit, time>> of processed visit documents
    fetched,        \* history: the last fetch_due_reminders(limit) call and its result
    conversation_state,  \* the conversation_state table: per (participant, workflow)
                    \* key, the states of the rows with that key, as a select
                    \* returns them
    lastAdvance,    \* history: the last advance_state call, its result and its requests
    lastGet,        \* history: the last get_state call and its result
    lastHook,       \* history: the last webhook request and what it did, in order
    nhooks,         \* counter of webhook requests
    attempted,      \* history, per dispatcher: ids of the rows process_reminder was
                    \* called for in the cycle it is in, in order
    user_states,    \* Whatsapp/state.py _user_states: the dict user_id -> state
    lastHandle,     \* history: the last StateMachine.handle call and its reply
    lastRoute,      \* history: the last route_message call and its reply
    advancing,      \* per concurrent caller: position inside advance_state
    origin,         \* history: the conversation_state table when the first of the
                    \* concurrent advance_state calls began
    alone,          \* history, per key: the state the key's advance_state calls
                    \* leave when they run alone, in the order they began
    gw_user_states, \* gateway.py user_states: the dict sender -> pending receipt
    lastGw,         \* history: the last webhook request of gateway.py, its inputs
                    \* and what it did
    processed_messages,  \* security.py processed_messages: the set of message ids
    checking,       \* per concurrent caller: position inside is_duplicate
    returned,       \* history, per message id: how many is_duplicate calls
                    \* returned False, and how many True
    nchecks,        \* counter of is_duplicate calls
    nadvances,      \* counter of advance_state calls
    ncalls, nticks, nfaults   \* counters that bound the model

vars == <<now, notifications, next_visit_at, claim_receipts, dpc, batch, call,
          stats, lastCall, ev, visits, fetched, conversation_state, lastAdvance,
          nadvances, ncalls, nticks, nfaults,
          lastGet,
          lastHook,
          nhooks,
          attempted, user_states, lastHandle, advancing, origin, alone, lastRoute,
          gw_user_states, lastGw, processed_messages, checking, returned, nchecks>>

\* the variables of the conversation workflows and of the query history
convvars == <<fetched, conversation_state, lastAdvance, nadvances>>

\* the variables of the webhook, of the sessions and of their histories
\* the in-memory sessions of the StateMachine workflows and their history
sessvars == <<user_states, lastHandle, lastRoute>>

\* the concurrent advance_state calls and their history
racevars == <<advancing, origin, alone>>

\* the receipt-upload sessions of gateway.py and their history
gatevars == <<gw_user_states, lastGw>>

\* the message ids seen by is_duplicate, its callers and their history
dupvars == <<processed_messages, checking, returned, nchecks>>

hookvars == <<lastGet, lastHook, nhooks, sessvars, racevars, gatevars, dupvars>>

flowvars == <<hookvars, attempted>>

\* ------------------------------------------------------------ the table

Min(S) == CHOOSE x \in S : \A y \in S : x <= y

\* scheduled_time = now if immediate else now + timedelta(minutes=delay_minutes)
scheduled_time(t, delay_minutes, immediate) ==
    IF immediate THEN t ELSE t + delay_minutes

\* visit_date_val = visit_date or scheduled_time   (a datetime is always truthy)
visit_date_val(visit_date, st) ==
    IF visit_date # None THEN visit_date ELSE st

\* mutant: the dedup query filters scheduled_at instead of visit_date
existing_on_scheduled_at(T, participant_id, template_type, vdv) ==
    {i \in 1..Len(T) : /\ T[i].participant_id = participant_id
                       /\ T[i].template_type = template_type
                       /\ T[i].scheduled_at = vdv}

\* select("id").eq(participant_id).eq(template_type).eq(visit_date): the ids found
existing(T, participant_id, template_type, vdv) ==
    {i \in 1..Len(T) : /\ T[i].participant_id = participant_id
                       /\ T[i].template_type = template_type
                       /\ T[i].visit_date = vdv}

\* the row of the insert of schedule_reminder
new_row(T, participant_id, message, st, template_type, vdv) ==
    [id |-> Len(T) + 1,
     participant_id |-> participant_id,
     message |-> message,
     scheduled_at |-> st,
     template_type |-> template_type,
     status |-> "pending",
     retry_count |-> 0,
     visit_date |-> vdv,
     last_attempt |-> None]

insert(T, participant_id, message, st, template_type, vdv) ==
    Append(T, new_row(T, participant_id, message, st, template_type, vdv))

\* mutant: a call that finds a row with the key makes that row pending again
schedule_reminder_rearming(T, participant_id, message, delay_minutes, template_type, visit_date, immediate, t) ==
    LET st == scheduled_time(t, delay_minutes, immediate)
        vdv == visit_date_val(visit_date, st)
        found == existing(T, participant_id, template_type, vdv)
    IN IF found # {}
       THEN [i \in 1..Len(T) |-> IF i \in found
                                  THEN [T[i] EXCEPT !.status = "pending", !.scheduled_at = st]
                                  ELSE T[i]]
       ELSE insert(T, participant_id, message, st, template_type, vdv)

\* schedule_reminder, run without interruption at time t: the table after it
schedule_reminder(T, participant_id, message, delay_minutes, template_type, visit_date, immediate, t) ==
    LET st == scheduled_time(t, delay_minutes, immediate)
        vdv == visit_date_val(visit_date, st)
    IN IF existing(T, participant_id, template_type, vdv) # {}
       THEN T
       ELSE insert(T, participant_id, message, st, template_type, vdv)

\* history rows kept beside the table
NoStats == [sends |-> 0, delivered |-> 0, rejected |-> 0, fails |-> 0, backoffs |-> <<>>]

RECURSIVE Pad(_, _)
Pad(S, n) == IF Len(S) >= n THEN S ELSE Pad(Append(S, NoStats), n)

\* ------------------------------------------------------------ histories
NoCall == [op |-> "none", key |-> <<"", "", None>>, seq |-> 0,
           fresh |-> FALSE, pfresh |-> FALSE, sched |-> 0, psched |-> 0,
           msg |-> "", pmsg |-> "", inserted |-> 0, changed |-> FALSE,
           repeat |-> FALSE]

NoEv == [op |-> "none", id |-> 0, n |-> 0, at |-> 0, cause |-> "none"]

IdleCall == [pc |-> "idle", participant_id |-> "", message |-> "",
             st |-> 0, template_type |-> "", vdv |-> None]

\* no fetch_due_reminders call yet
NoFetch == [limit |-> 0, at |-> 0, rows |-> <<>>]

\* a (participant_id, workflow_name) key without a row in conversation_state
Absent == "(no row)"

\* the empty conversation_state table
NoRows == [k \in Keys |-> <<>>]

\* the stored state of a key: that of its row, Absent when it has none
Stored(cs, key) == IF cs[key] = <<>> THEN Absent ELSE Head(cs[key])

NoAdvance == [key |-> <<"", "">>, event |-> "", before |-> Absent,
              returned |-> "", requests |-> <<>>, others_written |-> FALSE]

\* no get_state call yet
NoGet == [key |-> <<"", "">>, absent |-> FALSE, returned |-> ""]

\* no webhook request yet
\* _user_states = {}: no user has an entry
NoSessions == [u \in {} |-> ""]

NoEntry == "(no entry)"

NoHandle == [machine |-> "", user_id |-> "", msg |-> [text |-> "", document_id |-> ""],
             before |-> NoEntry, reply |-> ""]

IdleAdvance == [pc |-> "idle", key |-> <<"", "">>, event |-> "", new_state |-> ""]

NoRoute == [sender |-> "", type |-> "", intent |-> "", rag_resp |-> "",
            msg |-> [text |-> "", document_id |-> ""], reply |-> ""]

NoGw == [sender |-> "", type |-> "", body |-> "", download_ok |-> FALSE,
         visits_result |-> [success |-> FALSE, visits |-> <<>>], upload_ok |-> FALSE,
         handler |-> "", reply |-> "", upload |-> "none"]

IdleCheck == [pc |-> "idle", message_id |-> ""]

NoHook == [type |-> "", sender |-> "", trace |-> <<>>]

\* --------------------------------------------------------------- Init
Init ==
    /\ now = 0
    /\ notifications = <<>>
    /\ next_visit_at = [p \in Participants |-> None]
    /\ claim_receipts = 0
    /\ dpc = [d \in Dispatchers |-> "sleep"]
    /\ batch = [d \in Dispatchers |-> <<>>]
    /\ call = [c \in Callers |-> IdleCall]
    /\ stats = <<>>
    /\ lastCall = NoCall
    /\ ev = NoEv
    /\ visits = {}
    /\ fetched = NoFetch
    /\ conversation_state = NoRows
    /\ lastAdvance = NoAdvance
    /\ user_states = NoSessions
    /\ lastHandle = NoHandle
    /\ lastRoute = NoRoute
    /\ gw_user_states = NoSessions
    /\ lastGw = NoGw
    /\ processed_messages = {}
    /\ checking = [c \in Callers |-> IdleCheck]
    /\ returned = [id \in MessageIds |-> [falses |-> 0, trues |-> 0]]
    /\ nchecks = 0
    /\ advancing = [c \in Callers |-> IdleAdvance]
    /\ origin = conversation_state
    /\ alone = [k \in Keys |-> IF Stored(conversation_state, k) = Absent THEN "START"
                                ELSE Stored(conversation_state, k)]
    /\ attempted = [d \in Dispatchers |-> <<>>]
    /\ nhooks = 0
    /\ lastHook = NoHook
    /\ lastGet = NoGet
    /\ nadvances = 0
    /\ ncalls = 0
    /\ nticks = 0
    /\ nfaults = 0

\* ------------------------------------------------------------ the clock
\* pending rows scheduled after t
Later(T, t) == {T[i].scheduled_at : i \in {j \in 1..Len(T) :
                    T[j].status = "pending" /\ T[j].scheduled_at > t}}

\* time passes: one minute, or up to the next pending scheduled_at
Tick ==
    /\ nticks < MaxTicks
    /\ nticks' = nticks + 1
    /\ \/ now' = now + 1
       \/ /\ Later(notifications, now) # {}
          /\ now' = Min(Later(notifications, now))
    /\ UNCHANGED <<notifications, next_visit_at, claim_receipts, dpc, batch, call,
                   stats, lastCall, ev, visits, ncalls, nfaults>>
    /\ UNCHANGED convvars
    /\ UNCHANGED flowvars

\* ------------------------------------------------------------ scheduling
\* history only: the rows of T that carry a dedup key
KeyRows(T, key) ==
    {i \in 1..Len(T) : <<T[i].participant_id, T[i].template_type, T[i].visit_date>> = key}

\* history only: the record of a completed schedule_reminder call
CallRecord(T, T2, key, due, message) ==
    LET second == lastCall.op = "schedule" /\ lastCall.key = key
    IN [op |-> "schedule", key |-> key,
        seq |-> IF second THEN 2 ELSE 1,
        fresh |-> KeyRows(T, key) = {},
        pfresh |-> IF second THEN lastCall.fresh ELSE FALSE,
        sched |-> due,
        psched |-> IF second THEN lastCall.sched ELSE 0,
        msg |-> message,
        pmsg |-> IF second THEN lastCall.msg ELSE "",
        inserted |-> Len(T2) - Len(T),
        changed |-> T2 # T,
        repeat |-> FALSE]

\* one whole schedule_reminder call, no other step between its read and its insert
ScheduleReminder(participant_id, message, delay_minutes, template_type, visit_date, immediate) ==
    /\ LET st == scheduled_time(now, delay_minutes, immediate)
           vdv == visit_date_val(visit_date, st)
           T2 == schedule_reminder(notifications, participant_id, message,
                                   delay_minutes, template_type, visit_date,
                                   immediate, now)
       IN /\ ncalls < MaxCalls
          /\ ncalls' = ncalls + 1
          /\ notifications' = T2
          /\ stats' = Pad(stats, Len(T2))
          /\ lastCall' = CallRecord(notifications, T2,
                                    <<participant_id, template_type, vdv>>,
                                    IF immediate THEN now ELSE now + delay_minutes,
                                    message)
    /\ UNCHANGED <<now, next_visit_at, claim_receipts, dpc, batch, call, ev, visits,
                   nticks, nfaults>>
    /\ UNCHANGED convvars
    /\ UNCHANGED flowvars

\* f"Visit scheduled on {visit_dt:%d %b %H:%M}"
VisitMsg(visit_dt) ==
    IF visit_dt = Min(VisitDates) THEN "Visit scheduled on A" ELSE "Visit scheduled on B"

\* the three schedule_reminder calls of handle_receipt, at time t
schedule_visit_reminders(T, participant_id, visit_dt, t) ==
    LET T1 == schedule_reminder(T, participant_id, VisitMsg(visit_dt), 0,
                                "visit_created", None, TRUE, t)
        T2 == schedule_reminder(T1, participant_id, "Reminder: your visit is in 2 days.",
                                TWO_DAYS, "visit_2days", None, FALSE, t)
    IN schedule_reminder(T2, participant_id, "Reminder: your visit is in 2 hours.",
                         TWO_HOURS, "visit_2hours", None, FALSE, t)

\* what handle_receipt does to the tables, for a document classified as
\* (intent, visit_date) by detect_pdf_intent
receipt_effects(participant_id, intent, visit_date) ==
    /\ claim_receipts < MaxReceipts
    /\ claim_receipts' = claim_receipts + 1
    /\ IF intent = "visit_schedule" /\ visit_date # None
       THEN LET T2 == schedule_visit_reminders(notifications, participant_id,
                                               visit_date, now)
            IN /\ next_visit_at' = [next_visit_at EXCEPT ![participant_id] = visit_date]
               /\ notifications' = T2
               /\ stats' = Pad(stats, Len(T2))
               /\ visits' = visits \cup {<<participant_id, visit_date, now>>}
               /\ lastCall' = [NoCall EXCEPT
                                 !.op = "receipt",
                                 !.key = <<participant_id, "", visit_date>>,
                                 !.sched = now,
                                 !.inserted = Len(T2) - Len(notifications),
                                 !.changed = T2 # notifications,
                                 !.repeat = \E v \in visits :
                                     v[1] = participant_id /\ v[2] = visit_date /\ v[3] # now]
       ELSE /\ lastCall' = NoCall
            /\ UNCHANGED <<next_visit_at, notifications, stats, visits>>

\* one handle_receipt call made on its own
handle_receipt(participant_id, intent, visit_date) ==
    /\ receipt_effects(participant_id, intent, visit_date)
    /\ UNCHANGED <<now, dpc, batch, call, ev, ncalls, nticks, nfaults>>
    /\ UNCHANGED convvars
    /\ UNCHANGED flowvars

\* ------------------------------------------------------------ the dispatcher
\* mutant: the query without its status filter
Due_of_any_status(T, t) == {i \in 1..Len(T) : T[i].scheduled_at <= t}

\* the pending rows of T due at t
Due(T, t) == {i \in 1..Len(T) : T[i].status = "pending" /\ T[i].scheduled_at <= t}

\* .order("scheduled_at", desc=False).limit(k): every list the query may return
\* (the order of rows with equal scheduled_at is the database's choice)
RECURSIVE Ordered(_, _, _)
Ordered(T, S, k) ==
    IF k = 0 \/ S = {} THEN {<<>>}
    ELSE LET m == Min({T[i].scheduled_at : i \in S})
         IN UNION {{<<T[i]>> \o rest : rest \in Ordered(T, S \ {i}, k - 1)} :
                   i \in {j \in S : T[j].scheduled_at = m}}

\* mutant: the query without its .limit(limit)
fetch_due_reminders_unlimited(T, t, limit) == Ordered(T, Due(T, t), Len(T))

fetch_due_reminders(T, t, limit) == Ordered(T, Due(T, t), limit)

\* mutant: the delay is computed from the retry_count before the increment
backoff_delay_of_old_count(count) == 2 ^ (count - 1)

\* mutant: a linear delay, 2 * count
backoff_delay_linear(count) == 2 * count

\* 2 ** count
backoff_delay(count) == 2 ^ count

\* mutant: count < 3
retry_allowed_below_limit(count) == count < RETRY_LIMIT

\* mutant: one retry too many
retry_allowed_past_limit(count) == count <= RETRY_LIMIT + 1

\* if count <= 3
retry_allowed(count) == count <= RETRY_LIMIT

\* mutant: mark_as also moves scheduled_at to the time of the update
mark_as_rescheduling(T, reminder_id, status, retry_count, t) ==
    [T EXCEPT ![reminder_id].status = status,
              ![reminder_id].last_attempt = t,
              ![reminder_id].scheduled_at = t]

\* mark_as(reminder_id, status, retry_count=None) at time t
mark_as(T, reminder_id, status, retry_count, t) ==
    IF retry_count # None
    THEN [T EXCEPT ![reminder_id].status = status,
                   ![reminder_id].last_attempt = t,
                   ![reminder_id].retry_count = retry_count]
    ELSE [T EXCEPT ![reminder_id].status = status,
                   ![reminder_id].last_attempt = t]

\* mutant: the retry is recorded with a status the dispatcher does not fetch
retry_update_parking(T, reminder_id, count, t) ==
    [T EXCEPT ![reminder_id].retry_count = count,
              ![reminder_id].status = "retrying",
              ![reminder_id].scheduled_at = t + backoff_delay(count)]

\* the update of the except branch: retry_count, status, scheduled_at
retry_update(T, reminder_id, count, t) ==
    [T EXCEPT ![reminder_id].retry_count = count,
              ![reminder_id].status = "pending",
              ![reminder_id].scheduled_at = t + backoff_delay(count)]

\* mutant: the exhausted reminder is marked failed with the incremented count
except_branch_counting_last(T, r, t) ==
    LET count == r.retry_count + 1
    IN IF retry_allowed(count)
       THEN retry_update(T, r.id, count, t)
       ELSE mark_as(T, r.id, "failed", count, t)

\* the except branch of process_reminder for the fetched row r, at time t
except_branch(T, r, t) ==
    LET count == r.retry_count + 1
    IN IF retry_allowed(count)
       THEN retry_update(T, r.id, count, t)
       ELSE mark_as(T, r.id, "failed", None, t)

\* what send_text does with the outcome of requests.post: it raises only when
\* the request itself raises; the response's status code is printed, not checked;
\* the request is made without timeout, so it blocks while no response comes
send_text(outcome) ==
    CASE outcome = "raises" -> "raises"
      [] outcome = "no_response" -> "blocks"
      [] OTHER -> "returns"

\* the dispatcher's position after the row at the head of its batch
Advance(d) ==
    /\ batch' = [batch EXCEPT ![d] = Tail(@)]
    /\ dpc' = [dpc EXCEPT ![d] = IF Len(batch[d]) > 1 THEN "attempt" ELSE "sleep"]
    /\ attempted' = [attempted EXCEPT ![d] = IF Len(batch[d]) > 1 THEN @ ELSE <<>>]

\* mutant: the loop does not catch the exception and the process ends
Abort_uncaught(d) ==
    /\ batch' = [batch EXCEPT ![d] = <<>>]
    /\ dpc' = [dpc EXCEPT ![d] = "exited"]
    /\ attempted' = [attempted EXCEPT ![d] = <<>>]

\* an exception leaves send_due_reminders: the while loop's except Exception logs
\* it and the loop goes on to time.sleep(60)
Abort(d) ==
    /\ batch' = [batch EXCEPT ![d] = <<>>]
    /\ dpc' = [dpc EXCEPT ![d] = "sleep"]
    /\ attempted' = [attempted EXCEPT ![d] = <<>>]

InExcept(d) == dpc[d] \in {"except_send", "except_lookup", "except_store"}

\* send_due_reminders up to the loop: reminders = fetch_due_reminders(limit=5)
Fetch(d) ==
    /\ dpc[d] = "sleep"
    /\ \E b \in fetch_due_reminders(notifications, now, DISPATCH_LIMIT) :
          /\ b # <<>>
          /\ batch' = [batch EXCEPT ![d] = b]
          /\ dpc' = [dpc EXCEPT ![d] = "attempt"]
    /\ UNCHANGED <<now, notifications, next_visit_at, claim_receipts, call, stats,
                   lastCall, ev, visits, ncalls, nticks, nfaults>>
    /\ UNCHANGED convvars
    /\ attempted' = [attempted EXCEPT ![d] = <<>>]
    /\ UNCHANGED hookvars

\* process_reminder(r) for the row at the head of the batch: the try block up to
\* the send, get_phone, then send_text
Attempt(d, lookup, outcome) ==
    /\ dpc[d] = "attempt"
    /\ LET r == Head(batch[d])
       IN CASE lookup = "raises" ->
                 /\ nfaults < MaxFaults
                 /\ nfaults' = nfaults + 1
                 /\ dpc' = [dpc EXCEPT ![d] = "except_lookup"]
                 /\ UNCHANGED stats
            [] lookup = "nophone" ->
                 /\ dpc' = [dpc EXCEPT ![d] = "mark_failed"]
                 /\ UNCHANGED <<stats, nfaults>>
            [] lookup = "phone" ->
                 /\ stats' = [stats EXCEPT
                        ![r.id].sends = @ + 1,
                        ![r.id].delivered = IF outcome = "delivered" THEN @ + 1 ELSE @,
                        ![r.id].rejected = IF outcome = "error_response" THEN @ + 1 ELSE @,
                        ![r.id].fails = IF outcome = "raises" THEN @ + 1 ELSE @]
                 /\ dpc' = [dpc EXCEPT ![d] =
                        CASE send_text(outcome) = "raises" -> "except_send"
                          [] send_text(outcome) = "blocks" -> "blocked"
                          [] OTHER -> "mark_sent"]
                 /\ UNCHANGED nfaults
    /\ UNCHANGED <<now, notifications, next_visit_at, claim_receipts, batch, call,
                   lastCall, ev, visits, ncalls, nticks>>
    /\ UNCHANGED convvars
    /\ attempted' = [attempted EXCEPT ![d] = Append(@, Head(batch[d]).id)]
    /\ UNCHANGED hookvars

\* the write that follows: mark_as "sent", mark_as "failed", or the except branch;
\* ok = FALSE: the write raises
Record(d, ok) ==
    /\ dpc[d] \in {"mark_sent", "mark_failed"} \/ InExcept(d)
    /\ LET r == Head(batch[d])
           n == notifications[r.id].retry_count
       IN IF ok
          THEN /\ IF InExcept(d)
                  THEN /\ notifications' = except_branch(notifications, r, now)
                       /\ ev' = [op |-> IF notifications'[r.id].status = "pending"
                                        THEN "retry" ELSE "failed",
                                 id |-> r.id, n |-> n, at |-> now,
                                 cause |-> dpc[d]]
                       /\ stats' = IF notifications'[r.id].status = "pending"
                                   THEN [stats EXCEPT ![r.id].backoffs =
                                           Append(@, notifications'[r.id].scheduled_at - now)]
                                   ELSE stats
                  ELSE /\ notifications' = mark_as(notifications, r.id,
                               IF dpc[d] = "mark_sent" THEN "sent" ELSE "failed", None, now)
                       /\ ev' = [op |-> IF dpc[d] = "mark_sent" THEN "sent" ELSE "nophone",
                                 id |-> r.id, n |-> n, at |-> now, cause |-> "none"]
                       /\ UNCHANGED stats
               /\ Advance(d)
               /\ lastCall' = NoCall
               /\ UNCHANGED nfaults
          ELSE /\ nfaults < MaxFaults
               /\ nfaults' = nfaults + 1
               /\ IF InExcept(d)
                  THEN Abort(d)
                  ELSE /\ dpc' = [dpc EXCEPT ![d] = "except_store"]
                       /\ UNCHANGED <<batch, attempted>>
               /\ UNCHANGED <<notifications, stats, ev, lastCall>>
    /\ UNCHANGED <<now, next_visit_at, claim_receipts, call, visits, ncalls, nticks>>
    /\ UNCHANGED convvars
    /\ UNCHANGED hookvars

\* fetch_due_reminders raises: the cycle ends before any reminder is processed
FetchRaises(d) ==
    /\ dpc[d] = "sleep"
    /\ nfaults < MaxFaults
    /\ nfaults' = nfaults + 1
    /\ Abort(d)
    /\ UNCHANGED <<now, notifications, next_visit_at, claim_receipts, call,
                   stats, lastCall, ev, visits, ncalls, nticks>>
    /\ UNCHANGED convvars
    /\ UNCHANGED hookvars

\* fetch_due_reminders(limit) called on its own at the current time
Query(limit) ==
    /\ \E rows \in fetch_due_reminders(notifications, now, limit) :
          fetched' = [limit |-> limit, at |-> now, rows |-> rows]
    /\ UNCHANGED <<now, notifications, next_visit_at, claim_receipts, dpc, batch, call,
                   stats, lastCall, ev, visits, conversation_state, lastAdvance,
                   nadvances, ncalls, nticks, nfaults>>
    /\ UNCHANGED flowvars

\* ------------------------------------------------------------ the workflows
\* the transition tables of backend/fsm.py, as sets of <<state, event, next>>
FSM_CLAIMS_UPLOAD ==
    {<<"START", "begin", "WAITING_FOR_RECEIPT">>,
     <<"WAITING_FOR_RECEIPT", "upload", "RECEIPT_RECEIVED">>,
     <<"WAITING_FOR_RECEIPT", "reset", "START">>,
     <<"RECEIPT_RECEIVED", "validate_ok", "VALIDATED">>,
     <<"RECEIPT_RECEIVED", "reset", "START">>,
     <<"VALIDATED", "finish", "DONE">>,
     <<"VALIDATED", "reset", "START">>,
     <<"DONE", "reset", "START">>}

FSM_VISIT_PREP ==
    {<<"START", "begin", "WAITING_FOR_CONFIRMATION">>,
     <<"WAITING_FOR_CONFIRMATION", "confirm", "CONFIRMED">>,
     <<"WAITING_FOR_CONFIRMATION", "reset", "START">>,
     <<"CONFIRMED", "finish", "DONE">>,
     <<"CONFIRMED", "reset", "START">>,
     <<"DONE", "reset", "START">>}

FSM_RUN ==
    {<<"START", "begin", "WAITING_FOR_ID">>,
     <<"WAITING_FOR_ID", "provide_id", "ID_RECEIVED">>,
     <<"WAITING_FOR_ID", "reset", "START">>,
     <<"ID_RECEIVED", "validate_ok", "VALIDATED">>,
     <<"ID_RECEIVED", "reset", "START">>,
     <<"VALIDATED", "finish", "DONE">>,
     <<"VALIDATED", "reset", "START">>,
     <<"DONE", "reset", "START">>}

\* the transition table declared for a workflow name; none for other names
TableOf(workflow) ==
    CASE workflow = "claims_upload_workflow" -> FSM_CLAIMS_UPLOAD
      [] workflow = "visit_prep_workflow" -> FSM_VISIT_PREP
      [] workflow = "run_workflow" -> FSM_RUN
      [] OTHER -> {}

\* the states a table declares: its keys (every target is also a key)
StatesOf(table) == {x[1] : x \in table}

HasEntry(table, state, event) == \E x \in table : x[1] = state /\ x[2] = event

\* table.get(current_state, {}).get(event, default)
Get(table, current_state, event, default) ==
    IF HasEntry(table, current_state, event)
    THEN (CHOOSE x \in table : x[1] = current_state /\ x[2] = event)[3]
    ELSE default

\* mutant: an event without entry sends the workflow back to START
step_back_to_start(current_state, event, workflow) ==
    IF workflow = "claims_upload_workflow"
    THEN Get(FSM_CLAIMS_UPLOAD, current_state, event, "START")
    ELSE "START"

\* step(current_state, event, workflow)
step(current_state, event, workflow) ==
    IF workflow = "claims_upload_workflow"
    THEN Get(FSM_CLAIMS_UPLOAD, current_state, event, current_state)
    ELSE current_state

\* get_state: resp.data[0]["state"] of the rows of the key, "START" when the
\* select returns none
get_state(cs, participant_id, workflow_name) ==
    IF cs[<<participant_id, workflow_name>>] # <<>>
    THEN cs[<<participant_id, workflow_name>>][1]
    ELSE "START"

\* the request of get_state: select("state").eq(participant_id).eq(workflow_name)
get_state_request(participant_id, workflow_name) ==
    [op |-> "select", key |-> <<participant_id, workflow_name>>]

\* mutant: save_state inserts a row at every call
save_state_inserting(cs, participant_id, workflow_name, new_state) ==
    [cs EXCEPT ![<<participant_id, workflow_name>>] = Append(@, new_state)]

\* mutant: the conflict target is the workflow alone
save_state_of_every_participant(cs, participant_id, workflow_name, new_state) ==
    [k \in Keys |-> IF k[2] = workflow_name THEN <<new_state>> ELSE cs[k]]

\* save_state: upsert(payload, on_conflict="participant_id,workflow_name")
\* (INSERT ... ON CONFLICT (participant_id, workflow_name) DO UPDATE: the row of
\* the key is updated, and inserted when there is none)
save_state(cs, participant_id, workflow_name, new_state) ==
    [cs EXCEPT ![<<participant_id, workflow_name>>] =
        IF @ = <<>> THEN <<new_state>> ELSE [@ EXCEPT ![1] = new_state]]

save_state_request(participant_id, workflow_name) ==
    [op |-> "upsert", key |-> <<participant_id, workflow_name>>]

\* mutant: the state is saved only when it changes
advance_state_skipping_noop(cs, participant_id, workflow_name, intent) ==
    LET current_state == get_state(cs, participant_id, workflow_name)
        new_state == step(current_state, intent, workflow_name)
    IN IF new_state = current_state
       THEN [returned |-> new_state, table |-> cs,
             requests |-> <<get_state_request(participant_id, workflow_name)>>]
       ELSE [returned |-> new_state,
             table |-> save_state(cs, participant_id, workflow_name, new_state),
             requests |-> <<get_state_request(participant_id, workflow_name),
                            save_state_request(participant_id, workflow_name)>>]

\* advance_state on the table cs: what it returns, the table after it, and the
\* requests it made to the store
advance_state(cs, participant_id, workflow_name, intent) ==
    LET current_state == get_state(cs, participant_id, workflow_name)
        new_state == step(current_state, intent, workflow_name)
    IN [returned |-> new_state,
        table |-> save_state(cs, participant_id, workflow_name, new_state),
        requests |-> <<get_state_request(participant_id, workflow_name),
                       save_state_request(participant_id, workflow_name)>>]

\* one whole advance_state call
AdvanceState(participant_id, workflow_name, intent) ==
    /\ nadvances < MaxAdvances
    /\ nadvances' = nadvances + 1
    /\ LET res == advance_state(conversation_state, participant_id, workflow_name, intent)
           key == <<participant_id, workflow_name>>
       IN /\ conversation_state' = res.table
          /\ lastAdvance' = [key |-> key, event |-> intent,
                             before |-> Stored(conversation_state, key),
                             returned |-> res.returned,
                             requests |-> res.requests,
                             others_written |-> \E k \in Keys \ {key} :
                                 res.table[k] # conversation_state[k]]
    /\ UNCHANGED <<now, notifications, next_visit_at, claim_receipts, dpc, batch, call,
                   stats, lastCall, ev, visits, fetched, ncalls, nticks, nfaults>>
    /\ UNCHANGED flowvars

\* ------------------------------------------------------------ the webhook
\* text bodies, by what detect_intents makes of them
Texts == {"start", "upload", "done", "confirm", "id", "reset", "hello"}

\* detect_intents(text): at most one intent, from the exact phrases it knows
detect_intents(text) ==
    CASE text = "start" -> <<"begin">>
      [] text = "upload" -> <<"upload">>
      [] text = "done" -> <<"validate_ok">>
      [] text = "confirm" -> <<"confirm">>
      [] text = "id" -> <<"provide_id">>
      [] OTHER -> <<>>

NoWorkflow == "(none)"

\* the workflow the webhook picks for an intent
workflow_of(intent) ==
    CASE intent \in {"begin", "upload", "validate_ok", "finish", "reset"} ->
             "claims_upload_workflow"
      [] intent = "confirm" -> "visit_prep_workflow"
      [] intent = "provide_id" -> "run_workflow"
      [] OTHER -> NoWorkflow

\* what a webhook request does, in order: "persist" (advance_state returned),
\* "persist_failed" (it raised), "reply", "ack", "error_reply", "ai_reply" (sends)
Did(op, state) == [op |-> op, state |-> state]

\* the loop "for intent in intents" of the text case; advance_state raises when
\* the store does not answer (persist_ok = FALSE), which ends the request
RECURSIVE workflow_logic(_, _, _, _, _)
workflow_logic(cs, sender, intents, persist_ok, trace) ==
    IF intents = <<>> THEN [table |-> cs, trace |-> trace]
    ELSE LET intent == Head(intents)
             workflow == workflow_of(intent)
         IN IF workflow = NoWorkflow
            THEN workflow_logic(cs, sender, Tail(intents), persist_ok, trace)
            ELSE IF ~persist_ok
            THEN [table |-> cs, trace |-> Append(trace, Did("persist_failed", ""))]
            ELSE LET res == advance_state(cs, sender, workflow, intent)
                 IN workflow_logic(res.table, sender, Tail(intents), persist_ok,
                        trace \o <<Did("persist", res.returned),
                                   Did("reply", res.returned)>>)

\* case 1, a text message: the workflow logic, the AI reply when no intent was handled
text_message(cs, sender, text, persist_ok) ==
    LET res == workflow_logic(cs, sender, detect_intents(text), persist_ok, <<>>)
    IN IF res.trace = <<>>
       THEN [table |-> cs, trace |-> <<Did("ai_reply", "")>>]
       ELSE res

\* case 2, a document whose handle_receipt returned: the confirmation is sent,
\* then advance_state(sender, "claims_upload_workflow", "upload"), inside the try
document_message(cs, sender, persist_ok) ==
    IF persist_ok
    THEN LET res == advance_state(cs, sender, "claims_upload_workflow", "upload")
         IN [table |-> res.table,
             trace |-> <<Did("ack", ""), Did("persist", res.returned)>>]
    ELSE [table |-> cs,
          trace |-> <<Did("ack", ""), Did("persist_failed", ""), Did("error_reply", "")>>]

\* case 3, an image: save_file, the acknowledgement, then advance_state
image_message(cs, sender, persist_ok) ==
    IF persist_ok
    THEN LET res == advance_state(cs, sender, "claims_upload_workflow", "upload")
         IN [table |-> res.table,
             trace |-> <<Did("ack", ""), Did("persist", res.returned)>>]
    ELSE [table |-> cs, trace |-> <<Did("ack", ""), Did("persist_failed", "")>>]

\* one POST /webhook request with one message of the sender; the sender's number
\* stands for the participant id that get_or_create_participant returns
Webhook(sender, type, text, doc_intent, visit_date, persist_ok) ==
    /\ nhooks < MaxHooks
    /\ nhooks' = nhooks + 1
    /\ LET res == CASE type = "text" ->
                         text_message(conversation_state, sender, text, persist_ok)
                    [] type = "document" ->
                         document_message(conversation_state, sender, persist_ok)
                    [] type = "image" ->
                         image_message(conversation_state, sender, persist_ok)
       IN /\ conversation_state' = res.table
          /\ lastHook' = [type |-> type, sender |-> sender, trace |-> res.trace]
    /\ IF type = "document"
       THEN receipt_effects(sender, doc_intent, visit_date)
       ELSE UNCHANGED <<claim_receipts, next_visit_at, notifications, stats, visits,
                        lastCall>>
    /\ UNCHANGED <<now, dpc, batch, call, ev, ncalls, nticks, nfaults, fetched,
                   lastAdvance, nadvances, lastGet, attempted, gatevars, dupvars, sessvars, racevars>>

\* ------------------------------------------------------------ the StateMachine workflows
\* Whatsapp/state.py and Whatsapp/workflow.py: the messages the handlers look at
MsgTexts == {"YES", "no", "hello"}

Msgs == [text : MsgTexts, document_id : {"", "doc1"}]

\* (msg.text or "").strip().lower() on the texts above
Lowered(text) == IF text = "YES" THEN "yes" ELSE text

\* _user_states.get(user_id, "idle")
get_user_state(us, user_id) == IF user_id \in DOMAIN us THEN us[user_id] ELSE "idle"

\* _user_states[user_id] = state
set_state(us, user_id, state) ==
    [u \in DOMAIN us \cup {user_id} |-> IF u = user_id THEN state ELSE us[u]]

\* _user_states.pop(user_id, None)
clear_state(us, user_id) == [u \in DOMAIN us \ {user_id} |-> us[u]]

\* what the dict holds for the user
Session(us, user_id) == IF user_id \in DOMAIN us THEN us[user_id] ELSE NoEntry

\* the handlers return <<reply, next_state>>
claims_idle(msg) == <<"Please upload your claim as a PDF.", "awaiting_claim_pdf">>

claims_awaiting_pdf(msg) ==
    IF msg.document_id # ""
    THEN <<"Thanks, your claim PDF has been received.", "end">>
    ELSE <<"I expected a PDF document. Please try again.", "awaiting_claim_pdf">>

claims_upload_workflow ==
    [name |-> "claims_upload",
     states |-> {"idle", "awaiting_claim_pdf"},
     transitions |-> [idle |-> {"awaiting_claim_pdf"}, awaiting_claim_pdf |-> {"end"}],
     handlers |-> [idle |-> [msg \in Msgs |-> claims_idle(msg)],
                   awaiting_claim_pdf |-> [msg \in Msgs |-> claims_awaiting_pdf(msg)]]]

visit_idle(msg) ==
    <<"Are you ready for your upcoming visit? Reply YES or NO.", "awaiting_confirmation">>

visit_confirmation(msg) ==
    LET text == Lowered(msg.text)
    IN CASE text \in {"yes", "y"} -> <<"Great! You're all set for your visit.", "end">>
         [] text \in {"no", "n"} ->
              <<"Okay, please contact your coordinator for assistance.", "end">>
         [] OTHER -> <<"Please reply YES or NO.", "awaiting_confirmation">>

visit_prep_workflow ==
    [name |-> "visit_prep",
     states |-> {"idle", "awaiting_confirmation"},
     transitions |-> [idle |-> {"awaiting_confirmation"}, awaiting_confirmation |-> {"end"}],
     handlers |-> [idle |-> [msg \in Msgs |-> visit_idle(msg)],
                   awaiting_confirmation |-> [msg \in Msgs |-> visit_confirmation(msg)]]]

\* StateMachine.handle(user_id, msg) of machine M on the dict us: the dict after
\* the call and the reply
handle(us, M, user_id, msg) ==
    LET stored == get_user_state(us, user_id)
        state == IF stored \notin M.states THEN "idle" ELSE stored
        us1 == IF stored \notin M.states THEN set_state(us, user_id, state) ELSE us
    IN IF state \notin DOMAIN M.handlers
       THEN [user_states |-> us1, reply |-> "Sorry, I cannot handle this step."]
       ELSE LET r == M.handlers[state][msg]
                next_state == r[2]
                allowed == IF state \in DOMAIN M.transitions
                           THEN M.transitions[state] ELSE {}
            IN [user_states |->
                   IF next_state # "" /\ next_state \in allowed
                   THEN set_state(us1, user_id, next_state)
                   ELSE IF next_state = "end" THEN clear_state(us1, user_id) ELSE us1,
                reply |-> r[1]]

\* one whole handle call
Handle(M, user_id, msg) ==
    /\ LET res == handle(user_states, M, user_id, msg)
       IN /\ user_states' = res.user_states
          /\ lastHandle' = [machine |-> M.name, user_id |-> user_id, msg |-> msg,
                            before |-> Session(user_states, user_id),
                            reply |-> res.reply]
    /\ UNCHANGED <<now, notifications, next_visit_at, claim_receipts, dpc, batch, call,
                   stats, lastCall, ev, visits, ncalls, nticks, nfaults>>
    /\ UNCHANGED convvars
    /\ UNCHANGED <<lastGet, lastHook, nhooks, attempted, gatevars, dupvars, racevars, lastRoute>>

WorkflowNames == {"claims_upload", "visit_prep", "notification"}

\* run_workflow(workflow_name, user_id, msg) on the dict us
run_workflow(us, workflow_name, user_id, msg) ==
    CASE workflow_name = "claims_upload" -> handle(us, claims_upload_workflow, user_id, msg)
      [] workflow_name = "visit_prep" -> handle(us, visit_prep_workflow, user_id, msg)
      [] OTHER -> [user_states |-> us, reply |-> "Unknown workflow."]

\* one whole run_workflow call
RunWorkflow(workflow_name, user_id, msg) ==
    /\ LET res == run_workflow(user_states, workflow_name, user_id, msg)
       IN /\ user_states' = res.user_states
          /\ lastHandle' = [machine |-> workflow_name, user_id |-> user_id, msg |-> msg,
                            before |-> Session(user_states, user_id),
                            reply |-> res.reply]
    /\ UNCHANGED <<now, notifications, next_visit_at, claim_receipts, dpc, batch, call,
                   stats, lastCall, ev, visits, ncalls, nticks, nfaults>>
    /\ UNCHANGED convvars
    /\ UNCHANGED <<lastGet, lastHook, nhooks, attempted, gatevars, dupvars, racevars, lastRoute>>

\* Whatsapp/router.py: what classify_intents may return, <<intent, rag_resp>>
RouteIntents == {"qa", "claims_upload", "visit_prep", "notification", "smalltalk"}

RagResps == {"", "(answer of the retrieval service)"}

MsgTypes == {"text", "image"}

\* route_message(msg) on the dict us, for msg["from"] = sender, msg["type"] = type
\* and the result <<intent, rag_resp>> of classify_intents: the dict after the
\* call and the reply
route_message(us, sender, type, intent, rag_resp, msg) ==
    CASE type # "text" ->
            [user_states |-> us, reply |-> "Sorry, I can only handle text right now."]
      [] type = "text" /\ rag_resp # "" -> [user_states |-> us, reply |-> rag_resp]
      [] OTHER ->
            CASE intent = "qa" ->
                    [user_states |-> us, reply |-> "(answer of the retrieval service)"]
              [] intent = "claims_upload" ->
                    [user_states |-> us,
                     reply |-> "Please upload your claim as a PDF document."]
              [] intent = "visit_prep" -> run_workflow(us, sender, "visit_prep", msg)
              [] intent = "notification" ->
                    [user_states |-> us,
                     reply |-> "You will receive a notification shortly."]
              [] OTHER ->
                    [user_states |-> us,
                     reply |-> "I didn't understand that. Please try again."]

\* one whole route_message call
RouteMessage(sender, type, intent, rag_resp, msg) ==
    /\ LET res == route_message(user_states, sender, type, intent, rag_resp, msg)
       IN /\ user_states' = res.user_states
          /\ lastRoute' = [sender |-> sender, type |-> type, intent |-> intent,
                           rag_resp |-> rag_resp, msg |-> msg, reply |-> res.reply]
    /\ UNCHANGED <<now, notifications, next_visit_at, claim_receipts, dpc, batch, call,
                   stats, lastCall, ev, visits, ncalls, nticks, nfaults>>
    /\ UNCHANGED convvars
    /\ UNCHANGED <<lastGet, lastHook, nhooks, attempted, gatevars, dupvars, racevars, lastHandle>>

\* ------------------------------------------------------------ the receipt-upload gateway
\* src/gateway.py: the inbound messages and the answers of the backend
GwTypes == {"text", "image", "document", "audio"}

GwBodies == {"", "hello", "Cancel ", "0", "1", "2", "3"}

\* fetch_visits(): <<success, visits>>; a visit is its id, "" when it has none
FetchedVisits ==
    {[success |-> FALSE, visits |-> <<>>],
     [success |-> TRUE, visits |-> <<"v1">>],
     [success |-> TRUE, visits |-> <<"v1", "">>]}

\* .strip() of the bodies above
Stripped(body) == IF body = "Cancel " THEN "Cancel" ELSE body

\* .strip().lower() of the bodies above
StrippedLower(body) == IF body = "Cancel " THEN "cancel" ELSE body

\* int(body): the number, or ValueError
int(body) ==
    CASE body = "0" -> [ok |-> TRUE, value |-> 0]
      [] body = "1" -> [ok |-> TRUE, value |-> 1]
      [] body = "2" -> [ok |-> TRUE, value |-> 2]
      [] body = "3" -> [ok |-> TRUE, value |-> 3]
      [] OTHER -> [ok |-> FALSE, value |-> 0]

\* mutant: the state is kept
reset_user_state_keeping(us, sender) == us

\* user_states.pop(sender, None)
reset_user_state(us, sender) == [u \in DOMAIN us \ {sender} |-> us[u]]

\* the result of a handler: the dict after the call, the message sent, and
\* whether upload_receipt was called and what it returned
Handled(us, handler, reply, upload) ==
    [user_states |-> us, handler |-> handler, reply |-> reply, upload |-> upload]

handle_media_message(us, sender, download_ok, visits_result) ==
    IF ~download_ok
    THEN Handled(us, "media", "Media processing failed.", "none")
    ELSE IF ~visits_result.success
    THEN Handled(us, "media", "Couldn't retrieve visits right now.", "none")
    ELSE Handled([u \in DOMAIN us \cup {sender} |->
                     IF u = sender
                     THEN [awaiting_visit_selection |-> TRUE, visits |-> visits_result.visits]
                     ELSE us[u]],
                 "media", "Choose the visit for this receipt by replying with its number:",
                 "none")

handle_visit_selection(us, sender, text_body, upload_ok) ==
    LET visit_list == IF sender \in DOMAIN us THEN us[sender].visits ELSE <<>>
        body == StrippedLower(text_body)
        sel == int(body)
    IN CASE body = "" ->
              Handled(us, "selection", "Please reply with a number or 'cancel'.", "none")
         [] body # "" /\ body \in {"cancel", "stop", "exit"} ->
              Handled(reset_user_state(us, sender), "selection",
                      "Receipt upload cancelled.", "none")
         [] body # "" /\ body \notin {"cancel", "stop", "exit"} /\ ~sel.ok ->
              Handled(us, "selection", "That's not a number.", "none")
         [] OTHER ->
              IF sel.value < 1 \/ sel.value > Len(visit_list)
              THEN Handled(us, "selection", "Invalid selection.", "none")
              ELSE IF visit_list[sel.value] = ""
              THEN Handled(reset_user_state(us, sender), "selection",
                           "Selected visit missing ID.", "none")
              ELSE IF upload_ok
              THEN Handled(reset_user_state(us, sender), "selection",
                           "Receipt uploaded successfully for visit.", "ok")
              ELSE Handled(reset_user_state(us, sender), "selection",
                           "Problem uploading receipt. Please try again later.", "failed")

\* webhook() of gateway.py for one message; text_body is the body of a text
\* message and "" for any other message
gw_webhook(us, sender, type, text_body, download_ok, visits_result, upload_ok) ==
    IF sender \in DOMAIN us /\ us[sender].awaiting_visit_selection
    THEN handle_visit_selection(us, sender, text_body, upload_ok)
    ELSE CASE type = "text" ->
                 IF Stripped(text_body) = ""
                 THEN Handled(us, "text", "Please resend your message.", "none")
                 ELSE Handled(us, "text", "(answer of the assistant)", "none")
           [] type \in {"image", "video", "document"} ->
                 handle_media_message(us, sender, download_ok, visits_result)
           [] OTHER ->
                 Handled(us, "other",
                         "I can only process text or receipt files/images right now.",
                         "none")

\* one whole webhook request of gateway.py
GwWebhook(sender, type, body, download_ok, visits_result, upload_ok) ==
    /\ LET text_body == IF type = "text" THEN body ELSE ""
           res == gw_webhook(gw_user_states, sender, type, text_body, download_ok,
                             visits_result, upload_ok)
       IN /\ gw_user_states' = res.user_states
          /\ lastGw' = [sender |-> sender, type |-> type, body |-> text_body,
                        download_ok |-> download_ok, visits_result |-> visits_result,
                        upload_ok |-> upload_ok, handler |-> res.handler,
                        reply |-> res.reply, upload |-> res.upload]
    /\ UNCHANGED <<now, notifications, next_visit_at, claim_receipts, dpc, batch, call,
                   stats, lastCall, ev, visits, ncalls, nticks, nfaults>>
    /\ UNCHANGED convvars
    /\ UNCHANGED <<lastGet, lastHook, nhooks, attempted, sessvars, racevars, dupvars>>

\* ------------------------------------------------------------ duplicate messages
\* security.py is_duplicate(message_id), first statement: the membership test;
\* found: the call returns True
IsDuplicateTest(c, message_id) ==
    /\ checking[c].pc = "idle"
    /\ nchecks < MaxChecks
    /\ nchecks' = nchecks + 1
    /\ IF message_id \in processed_messages
       THEN /\ returned' = [returned EXCEPT ![message_id].trues = @ + 1]
            /\ UNCHANGED checking
       ELSE /\ checking' = [checking EXCEPT ![c] = [pc |-> "add", message_id |-> message_id]]
            /\ UNCHANGED returned
    /\ UNCHANGED processed_messages
    /\ UNCHANGED <<now, notifications, next_visit_at, claim_receipts, dpc, batch, call,
                   stats, lastCall, ev, visits, ncalls, nticks, nfaults>>
    /\ UNCHANGED convvars
    /\ UNCHANGED <<lastGet, lastHook, nhooks, attempted, sessvars, racevars, gatevars>>

\* not found: processed_messages.add(message_id); return False
IsDuplicateAdd(c) ==
    /\ checking[c].pc = "add"
    /\ processed_messages' = processed_messages \cup {checking[c].message_id}
    /\ returned' = [returned EXCEPT ![checking[c].message_id].falses = @ + 1]
    /\ checking' = [checking EXCEPT ![c] = IdleCheck]
    /\ UNCHANGED nchecks
    /\ UNCHANGED <<now, notifications, next_visit_at, claim_receipts, dpc, batch, call,
                   stats, lastCall, ev, visits, ncalls, nticks, nfaults>>
    /\ UNCHANGED convvars
    /\ UNCHANGED <<lastGet, lastHook, nhooks, attempted, sessvars, racevars, gatevars>>

\* ------------------------------------------------------------ specifications
\* The dispatcher's life cycle: one dispatcher, a store that answers, and a caller
\* that schedules generic reminders (now or in a minute) one call at a time. The
\* participant's address is looked up anew at every attempt: it may be there or not.
Next ==
    \/ Tick
    \/ \E imm \in BOOLEAN :
            ScheduleReminder("p1", "m1", 1, "generic", None, imm)
    \/ Fetch("d1")
    \/ \E lookup \in {"phone", "nophone"},
          outcome \in {"delivered", "error_response", "raises"} :
            Attempt("d1", lookup, outcome)
    \/ Record("d1", TRUE)

Spec == Init /\ [][Next]_vars

\* Scheduling: the inputs of schedule_reminder, one call at a time, starting from
\* an empty table or from one that holds a reminder already delivered.
SentRow ==
    [new_row(<<>>, "p1", "m1", 0, "generic", Min(VisitDates))
        EXCEPT !.status = "sent", !.last_attempt = 0]

InitS ==
    /\ now = 0
    /\ notifications \in {<<>>, <<SentRow>>}
    /\ stats = IF notifications = <<>> THEN <<>>
               ELSE <<[NoStats EXCEPT !.sends = 1, !.delivered = 1]>>
    /\ next_visit_at = [p \in Participants |-> None]
    /\ claim_receipts = 0
    /\ dpc = [d \in Dispatchers |-> "sleep"]
    /\ batch = [d \in Dispatchers |-> <<>>]
    /\ call = [c \in Callers |-> IdleCall]
    /\ lastCall = NoCall
    /\ ev = NoEv
    /\ visits = {}
    /\ fetched = NoFetch
    /\ conversation_state = NoRows
    /\ lastAdvance = NoAdvance
    /\ user_states = NoSessions
    /\ lastHandle = NoHandle
    /\ lastRoute = NoRoute
    /\ gw_user_states = NoSessions
    /\ lastGw = NoGw
    /\ processed_messages = {}
    /\ checking = [c \in Callers |-> IdleCheck]
    /\ returned = [id \in MessageIds |-> [falses |-> 0, trues |-> 0]]
    /\ nchecks = 0
    /\ advancing = [c \in Callers |-> IdleAdvance]
    /\ origin = conversation_state
    /\ alone = [k \in Keys |-> IF Stored(conversation_state, k) = Absent THEN "START"
                                ELSE Stored(conversation_state, k)]
    /\ attempted = [d \in Dispatchers |-> <<>>]
    /\ nhooks = 0
    /\ lastHook = NoHook
    /\ lastGet = NoGet
    /\ nadvances = 0
    /\ ncalls = 0
    /\ nticks = 0
    /\ nfaults = 0

NextS ==
    \/ Tick
    \/ \E p \in Participants, m \in Messages, dl \in Delays,
          vd \in VisitDates \cup {None}, imm \in BOOLEAN :
            ScheduleReminder(p, m, dl, "generic", vd, imm)

SpecS == InitS /\ [][NextS]_vars

\* Visit documents: handle_receipt for the documents a participant uploads, and
\* the dispatcher delivering the reminders it schedules over a channel that works.
NextR ==
    \/ Tick
    \/ \E p \in Participants, i \in Intents, vd \in VisitDates \cup {None} :
            handle_receipt(p, i, vd)
    \/ Fetch("d1")
    \/ Attempt("d1", "phone", "delivered")
    \/ Record("d1", TRUE)

SpecR == Init /\ [][NextR]_vars

\* The dispatcher with a store that may raise on any of its operations.
NextF ==
    \/ Tick
    \/ \E imm \in BOOLEAN :
            ScheduleReminder("p1", "m1", 1, "generic", None, imm)
    \/ Fetch("d1")
    \/ FetchRaises("d1")
    \/ \E lookup \in {"phone", "nophone", "raises"},
          outcome \in {"delivered", "error_response", "raises"} :
            Attempt("d1", lookup, outcome)
    \/ \E ok \in BOOLEAN : Record("d1", ok)

SpecF == Init /\ [][NextF]_vars

\* Concurrent callers of schedule_reminder with an explicit visit_date: the select
\* and the insert of a call are two requests to the store, and other callers'
\* requests may come between.
SchedRead(c, participant_id, message, delay_minutes, template_type, visit_date, immediate) ==
    /\ call[c].pc = "idle"
    /\ ncalls < MaxCalls
    /\ ncalls' = ncalls + 1
    /\ LET st == scheduled_time(now, delay_minutes, immediate)
           vdv == visit_date_val(visit_date, st)
       IN call' = [call EXCEPT ![c] =
                IF existing(notifications, participant_id, template_type, vdv) # {}
                THEN IdleCall
                ELSE [pc |-> "insert", participant_id |-> participant_id,
                      message |-> message, st |-> st,
                      template_type |-> template_type, vdv |-> vdv]]
    /\ lastCall' = NoCall
    /\ UNCHANGED <<now, notifications, next_visit_at, claim_receipts, dpc, batch,
                   stats, ev, visits, nticks, nfaults>>
    /\ UNCHANGED convvars
    /\ UNCHANGED flowvars

SchedInsert(c) ==
    /\ call[c].pc = "insert"
    /\ notifications' = insert(notifications, call[c].participant_id, call[c].message,
                               call[c].st, call[c].template_type, call[c].vdv)
    /\ stats' = Pad(stats, Len(notifications'))
    /\ call' = [call EXCEPT ![c] = IdleCall]
    /\ lastCall' = NoCall
    /\ UNCHANGED <<now, next_visit_at, claim_receipts, dpc, batch, ev, visits,
                   ncalls, nticks, nfaults>>
    /\ UNCHANGED convvars
    /\ UNCHANGED flowvars

NextC ==
    \/ Tick
    \/ \E c \in Callers, p \in Participants, m \in Messages, tt \in Templates,
          vd \in VisitDates, imm \in BOOLEAN :
            SchedRead(c, p, m, 1, tt, vd, imm)
    \/ \E c \in Callers : SchedInsert(c)

SpecC == Init /\ [][NextC]_vars

\* Two dispatcher instances (two processes running the __main__ loop) against the
\* same notifications table: each request of an instance is one step, and the
\* other instance's requests may come between.
NextD ==
    \/ Tick
    \/ \E imm \in BOOLEAN :
            ScheduleReminder("p1", "m1", 1, "generic", None, imm)
    \/ \E d \in Dispatchers : Fetch(d)
    \/ \E d \in Dispatchers, outcome \in {"delivered", "raises"} :
            Attempt(d, "phone", outcome)
    \/ \E d \in Dispatchers : Record(d, TRUE)

SpecD == Init /\ [][NextD]_vars

\* fetch_due_reminders as a function of the table, the time and the limit: the
\* tables are those of up to MaxRows reminders in any status, scheduled before,
\* at or after the time of the first call.
QueryRow(i, status, at) ==
    [id |-> i, participant_id |-> "p1", message |-> "m1", scheduled_at |-> at,
     template_type |-> "generic", status |-> status, retry_count |-> 0,
     visit_date |-> 10 * i, last_attempt |-> IF status = "pending" THEN None ELSE 0]

QueryTables ==
    UNION {{[i \in 1..n |-> QueryRow(i, f[i][1], f[i][2])] :
                f \in [1..n -> {"pending", "sent", "failed"} \X (0..2)]} :
           n \in 0..MaxRows}

InitQ ==
    /\ now = 1
    /\ notifications \in QueryTables
    /\ stats = Pad(<<>>, Len(notifications))
    /\ next_visit_at = [p \in Participants |-> None]
    /\ claim_receipts = 0
    /\ dpc = [d \in Dispatchers |-> "sleep"]
    /\ batch = [d \in Dispatchers |-> <<>>]
    /\ call = [c \in Callers |-> IdleCall]
    /\ lastCall = NoCall
    /\ ev = NoEv
    /\ visits = {}
    /\ fetched = NoFetch
    /\ conversation_state = NoRows
    /\ lastAdvance = NoAdvance
    /\ user_states = NoSessions
    /\ lastHandle = NoHandle
    /\ lastRoute = NoRoute
    /\ gw_user_states = NoSessions
    /\ lastGw = NoGw
    /\ processed_messages = {}
    /\ checking = [c \in Callers |-> IdleCheck]
    /\ returned = [id \in MessageIds |-> [falses |-> 0, trues |-> 0]]
    /\ nchecks = 0
    /\ advancing = [c \in Callers |-> IdleAdvance]
    /\ origin = conversation_state
    /\ alone = [k \in Keys |-> IF Stored(conversation_state, k) = Absent THEN "START"
                                ELSE Stored(conversation_state, k)]
    /\ attempted = [d \in Dispatchers |-> <<>>]
    /\ nhooks = 0
    /\ lastHook = NoHook
    /\ lastGet = NoGet
    /\ nadvances = 0
    /\ ncalls = 0
    /\ nticks = 0
    /\ nfaults = 0

NextQ ==
    \/ Tick
    \/ \E limit \in Limits : Query(limit)

SpecQ == InitQ /\ [][NextQ]_vars

\* Liveness of the dispatcher: one dispatcher that keeps cycling on a backlog of
\* one reminder more than a cycle takes, all due, created a minute apart while no
\* dispatcher ran. The store answers and every send returns or raises. Time keeps
\* passing as long as a pending reminder waits for its time.
BacklogRow(i) == new_row([j \in 1..(i - 1) |-> j], "p1", "m1", i - 1, "generic", i - 1)

Backlog == [i \in 1..(DISPATCH_LIMIT + 1) |-> BacklogRow(i)]

InitL ==
    /\ now = DISPATCH_LIMIT
    /\ notifications = Backlog
    /\ stats = Pad(<<>>, Len(Backlog))
    /\ next_visit_at = [p \in Participants |-> None]
    /\ claim_receipts = 0
    /\ dpc = [d \in Dispatchers |-> "sleep"]
    /\ batch = [d \in Dispatchers |-> <<>>]
    /\ call = [c \in Callers |-> IdleCall]
    /\ lastCall = NoCall
    /\ ev = NoEv
    /\ visits = {}
    /\ fetched = NoFetch
    /\ conversation_state = NoRows
    /\ lastAdvance = NoAdvance
    /\ user_states = NoSessions
    /\ lastHandle = NoHandle
    /\ lastRoute = NoRoute
    /\ gw_user_states = NoSessions
    /\ lastGw = NoGw
    /\ processed_messages = {}
    /\ checking = [c \in Callers |-> IdleCheck]
    /\ returned = [id \in MessageIds |-> [falses |-> 0, trues |-> 0]]
    /\ nchecks = 0
    /\ advancing = [c \in Callers |-> IdleAdvance]
    /\ origin = conversation_state
    /\ alone = [k \in Keys |-> IF Stored(conversation_state, k) = Absent THEN "START"
                                ELSE Stored(conversation_state, k)]
    /\ attempted = [d \in Dispatchers |-> <<>>]
    /\ nhooks = 0
    /\ lastHook = NoHook
    /\ lastGet = NoGet
    /\ nadvances = 0
    /\ ncalls = 0
    /\ nticks = 0
    /\ nfaults = 0

\* time.sleep(60): a minute passes between two cycles, as long as a pending
\* reminder waits for its time
Pass ==
    /\ dpc["d1"] = "sleep"
    /\ Later(notifications, now) # {}
    /\ now' = now + 1
    /\ UNCHANGED <<notifications, next_visit_at, claim_receipts, dpc, batch, call,
                   stats, lastCall, ev, visits, ncalls, nticks, nfaults>>
    /\ UNCHANGED convvars
    /\ UNCHANGED flowvars

\* the sends that raised so far, read off the table: one per retry granted, four
\* for a reminder that used its retries up
RECURSIVE SendsRaised(_)
SendsRaised(T) ==
    IF T = <<>> THEN 0
    ELSE SendsRaised(Tail(T)) +
         (IF Head(T).status = "failed" /\ Head(T).retry_count = RETRY_LIMIT
          THEN RETRY_LIMIT + 1 ELSE Head(T).retry_count)

AttemptAny ==
    \E lookup \in {"phone", "nophone"}, outcome \in {"delivered", "raises"} :
        /\ outcome = "raises" => SendsRaised(notifications) < MaxRaises
        /\ Attempt("d1", lookup, outcome)

NextL ==
    \/ Pass
    \/ Fetch("d1")
    \/ AttemptAny
    \/ Record("d1", TRUE)

\* the loop keeps calling send_due_reminders, every request returns, time passes
FairL ==
    /\ WF_vars(Pass)
    /\ WF_vars(Fetch("d1"))
    /\ WF_vars(AttemptAny)
    /\ WF_vars(Record("d1", TRUE))

SpecL == InitL /\ [][NextL]_vars /\ FairL

\* The workflow engine: advance_state calls, one at a time, with a store that
\* answers. The conversation_state table lives in the shared database: at the
\* start it is empty or holds one row, with a state of one of the tables or with
\* a state that no table declares (written by another tool or an older version).
StoredStates ==
    StatesOf(FSM_CLAIMS_UPLOAD) \cup StatesOf(FSM_VISIT_PREP) \cup StatesOf(FSM_RUN)
        \cup {"EXPIRED"}

InitW ==
    /\ now = 0
    /\ notifications = <<>>
    /\ stats = <<>>
    /\ next_visit_at = [p \in Participants |-> None]
    /\ claim_receipts = 0
    /\ dpc = [d \in Dispatchers |-> "sleep"]
    /\ batch = [d \in Dispatchers |-> <<>>]
    /\ call = [c \in Callers |-> IdleCall]
    /\ lastCall = NoCall
    /\ ev = NoEv
    /\ visits = {}
    /\ fetched = NoFetch
    /\ conversation_state \in
          {NoRows} \cup {[NoRows EXCEPT ![k] = <<st>>] : k \in Keys, st \in StoredStates}
    /\ lastAdvance = NoAdvance
    /\ user_states = NoSessions
    /\ lastHandle = NoHandle
    /\ lastRoute = NoRoute
    /\ gw_user_states = NoSessions
    /\ lastGw = NoGw
    /\ processed_messages = {}
    /\ checking = [c \in Callers |-> IdleCheck]
    /\ returned = [id \in MessageIds |-> [falses |-> 0, trues |-> 0]]
    /\ nchecks = 0
    /\ advancing = [c \in Callers |-> IdleAdvance]
    /\ origin = conversation_state
    /\ alone = [k \in Keys |-> IF Stored(conversation_state, k) = Absent THEN "START"
                                ELSE Stored(conversation_state, k)]
    /\ attempted = [d \in Dispatchers |-> <<>>]
    /\ nhooks = 0
    /\ lastHook = NoHook
    /\ lastGet = NoGet
    /\ nadvances = 0
    /\ ncalls = 0
    /\ nticks = 0
    /\ nfaults = 0

NextW ==
    \E p \in Participants, w \in Workflows, e \in Events : AdvanceState(p, w, e)

SpecW == InitW /\ [][NextW]_vars

\* one whole get_state call made on its own: a select, no write
GetState(participant_id, workflow_name) ==
    /\ lastGet' = [key |-> <<participant_id, workflow_name>>,
                   absent |-> conversation_state[<<participant_id, workflow_name>>] = <<>>,
                   returned |-> get_state(conversation_state, participant_id, workflow_name)]
    /\ UNCHANGED <<lastHook, nhooks, attempted, gatevars, dupvars, sessvars, racevars>>
    /\ UNCHANGED <<now, notifications, next_visit_at, claim_receipts, dpc, batch, call,
                   stats, lastCall, ev, visits, ncalls, nticks, nfaults>>
    /\ UNCHANGED convvars

\* get_state and advance_state calls of one participant, in any order
NextG ==
    \/ \E w \in Workflows : GetState("p1", w)
    \/ \E w \in Workflows, e \in Events : AdvanceState("p1", w, e)

SpecG == InitW /\ [][NextG]_vars

\* The webhook: the messages of one sender, one request at a time, with a
\* store that may fail to answer advance_state.
NextH ==
    \/ \E text \in Texts, ok \in BOOLEAN :
            Webhook("p1", "text", text, "other", None, ok)
    \/ \E i \in Intents, vd \in {None, Min(VisitDates)}, ok \in BOOLEAN :
            Webhook("p1", "document", "", i, vd, ok)
    \/ \E ok \in BOOLEAN : Webhook("p1", "image", "", "other", None, ok)

SpecH == Init /\ [][NextH]_vars

\* The dispatcher on the backlog when the messaging API may leave a request
\* without response. The loop keeps running whatever step it can take.
AttemptOrHang ==
    \E lookup \in {"phone", "nophone"}, outcome \in {"delivered", "no_response"} :
        Attempt("d1", lookup, outcome)

NextT ==
    \/ Fetch("d1")
    \/ AttemptOrHang
    \/ Record("d1", TRUE)

FairT ==
    /\ WF_vars(Fetch("d1"))
    /\ WF_vars(AttemptOrHang)
    /\ WF_vars(Record("d1", TRUE))

SpecT == InitL /\ [][NextT]_vars /\ FairT

\* The claims_upload StateMachine serving the messages of its users, in any order.
NextU ==
    \E user_id \in Participants, msg \in Msgs : Handle(claims_upload_workflow, user_id, msg)

SpecU == Init /\ [][NextU]_vars

\* Concurrent advance_state calls (the webhook serves requests in parallel, and
\* the provider may deliver a message twice): the select of get_state and the
\* upsert of save_state are two requests to the store, and another call's
\* requests may come between. Each caller makes one call.
AdvRead(c, participant_id, workflow_name, intent) ==
    /\ advancing[c].pc = "idle"
    /\ LET current_state == get_state(conversation_state, participant_id, workflow_name)
       IN advancing' = [advancing EXCEPT ![c] =
                [pc |-> "save", key |-> <<participant_id, workflow_name>>,
                 event |-> intent,
                 new_state |-> step(current_state, intent, workflow_name)]]
    /\ origin' = IF \A o \in Callers : advancing[o].pc = "idle"
                 THEN conversation_state ELSE origin
    /\ alone' = [alone EXCEPT ![<<participant_id, workflow_name>>] =
                    step(@, intent, workflow_name)]
    /\ UNCHANGED <<now, notifications, next_visit_at, claim_receipts, dpc, batch, call,
                   stats, lastCall, ev, visits, ncalls, nticks, nfaults>>
    /\ UNCHANGED convvars
    /\ UNCHANGED <<lastGet, lastHook, nhooks, attempted, gatevars, dupvars, sessvars>>

\* save_state(participant_id, workflow_name, new_state) of the call, with the
\* state computed from what the call read
AdvWrite(c) ==
    /\ advancing[c].pc = "save"
    /\ conversation_state' = save_state(conversation_state, advancing[c].key[1],
                                        advancing[c].key[2], advancing[c].new_state)
    /\ advancing' = [advancing EXCEPT ![c].pc = "done"]
    /\ UNCHANGED <<now, notifications, next_visit_at, claim_receipts, dpc, batch, call,
                   stats, lastCall, ev, visits, ncalls, nticks, nfaults>>
    /\ UNCHANGED <<fetched, lastAdvance, nadvances, origin, alone>>
    /\ UNCHANGED <<lastGet, lastHook, nhooks, attempted, gatevars, dupvars, sessvars>>

NextA ==
    \/ \E c \in Callers, p \in Participants, w \in Workflows, e \in Events :
          AdvRead(c, p, w, e)
    \/ \E c \in Callers : AdvWrite(c)

SpecA == Init /\ [][NextA]_vars

\* advance_state returned: the caller may make its next call
AdvAgain(c) ==
    /\ advancing[c].pc = "done"
    /\ nadvances < MaxAdvances
    /\ nadvances' = nadvances + 1
    /\ advancing' = [advancing EXCEPT ![c] = IdleAdvance]
    /\ UNCHANGED <<now, notifications, next_visit_at, claim_receipts, dpc, batch, call,
                   stats, lastCall, ev, visits, ncalls, nticks, nfaults>>
    /\ UNCHANGED <<fetched, conversation_state, lastAdvance, origin, alone>>
    /\ UNCHANGED <<lastGet, lastHook, nhooks, attempted, gatevars, dupvars, sessvars>>

\* Two webhook requests served in parallel, one for each of two participants,
\* each followed by that participant's later requests.
NextI ==
    \/ \E w \in Workflows, e \in Events : AdvRead("c1", "p1", w, e)
    \/ \E w \in Workflows, e \in Events : AdvRead("c2", "p2", w, e)
    \/ \E c \in Callers : AdvWrite(c)
    \/ \E c \in Callers : AdvAgain(c)

SpecI == Init /\ [][NextI]_vars

\* The StateMachine workflows serving the messages of their users, in any order.
NextM ==
    \E workflow_name \in WorkflowNames, user_id \in Participants, msg \in Msgs :
        RunWorkflow(workflow_name, user_id, msg)

SpecM == Init /\ [][NextM]_vars

\* The dispatcher process is asked to stop (SIGINT, SIGTERM). The module installs
\* no signal handler and the loop catches Exception only: KeyboardInterrupt is
\* not an Exception and the default action of SIGTERM ends the process, so the
\* process ends wherever it is, with the rest of its batch unprocessed.
Stop(d) ==
    /\ dpc[d] # "stopped"
    /\ dpc' = [dpc EXCEPT ![d] = "stopped"]
    /\ UNCHANGED <<now, notifications, next_visit_at, claim_receipts, batch, call, stats,
                   lastCall, ev, visits, ncalls, nticks, nfaults>>
    /\ UNCHANGED convvars
    /\ UNCHANGED flowvars

NextK ==
    \/ Next
    \/ Stop("d1")

SpecK == Init /\ [][NextK]_vars

\* route_message serving the texts of the users, whose steps in visit_prep are
\* those the visit_prep StateMachine leaves.
NextN ==
    \/ \E sender \in Participants, type \in MsgTypes, intent \in RouteIntents,
          rag_resp \in RagResps, msg \in Msgs :
            RouteMessage(sender, type, intent, rag_resp, msg)
    \/ \E user_id \in Participants, msg \in Msgs : RunWorkflow("visit_prep", user_id, msg)

SpecN == Init /\ [][NextN]_vars

\* The webhook of gateway.py serving the messages of its senders, one request at
\* a time.
NextV ==
    \E sender \in Participants, type \in GwTypes, body \in GwBodies,
       download_ok \in BOOLEAN, visits_result \in FetchedVisits, upload_ok \in BOOLEAN :
        GwWebhook(sender, type, body, download_ok, visits_result, upload_ok)

SpecV == Init /\ [][NextV]_vars

\* is_duplicate called by webhook requests served in parallel threads: another
\* thread may run between the membership test and the add.
NextP ==
    \/ \E c \in Callers, message_id \in MessageIds : IsDuplicateTest(c, message_id)
    \/ \E c \in Callers : IsDuplicateAdd(c)

SpecP == Init /\ [][NextP]_vars

\* ------------------------------------------------------------ claims
\* The state right after two schedule_reminder calls with the same dedup key
\* (participant_id, template_type, visit_date), nothing but time between them:
\* exactly one row has the key, it is pending with retry_count 0, its scheduled_at
\* and message are the first call's, and the second call changed nothing.
OneRowOfFirstCall ==
    /\ ~lastCall.changed
    /\ \E i \in 1..Len(notifications) :
          /\ KeyRows(notifications, lastCall.key) = {i}
          /\ notifications[i].status = "pending"
          /\ notifications[i].retry_count = 0
          /\ notifications[i].scheduled_at = lastCall.psched
          /\ notifications[i].message = lastCall.pmsg

TwoCalls == lastCall.op = "schedule" /\ lastCall.seq = 2

\* C1 as stated: two sequential schedule_reminder calls with the same key, from
\* any notifications table, leave exactly one row with the key, the pending row
\* the first call inserted; the second call changes nothing.
C1_FromAnyTable == TwoCalls => OneRowOfFirstCall

\* C1 amended: the same, from any notifications table that holds no row with
\* the key before the first call.
C1_FromTableWithoutKey == (TwoCalls /\ lastCall.pfresh) => OneRowOfFirstCall

\* C1 witness: a second call at a later time with another message, after a
\* first call that found no row with the key.
C1_Witness ==
    /\ TwoCalls /\ lastCall.pfresh
    /\ lastCall.sched # lastCall.psched
    /\ lastCall.msg # lastCall.pmsg
    /\ Len(notifications) > 1

\* C3: when handle_receipt processes a visit-schedule document of a participant
\* and visit date that it processed before at another time, it inserts no
\* reminder row.
C3_RepeatInsertsNothing ==
    (lastCall.op = "receipt" /\ lastCall.repeat) => lastCall.inserted = 0

\* C2: no two rows of the notifications table share
\* (participant_id, template_type, visit_date), also when schedule_reminder
\* calls run concurrently.
C2_NoDuplicateKeys ==
    \A i, j \in 1..Len(notifications) :
        (/\ notifications[i].participant_id = notifications[j].participant_id
         /\ notifications[i].template_type = notifications[j].template_type
         /\ notifications[i].visit_date = notifications[j].visit_date) => i = j

\* A delivery attempt fails when send_text raises: the except branch of
\* process_reminder was entered from the send, for the row ev.id, whose
\* retry_count was ev.n before the attempt. The attempt's time ev.at is the
\* time at which its failure is handled (datetime.now() of the except branch).
\* A send that the API answers with an error response does not raise: C9.
SendFailed == ev.cause = "except_send"

\* C4: after a failed delivery attempt on a pending reminder with retry_count n,
\* the reminder is pending with retry_count n + 1 if n < 3 and failed if n >= 3;
\* a failed attempt that leaves it pending has increased retry_count by one.
C4_RetryOrFail ==
    SendFailed =>
        LET r == notifications[ev.id]
        IN /\ IF ev.n < 3
              THEN r.status = "pending" /\ r.retry_count = ev.n + 1
              ELSE r.status = "failed"
           /\ r.status = "pending" => r.retry_count = ev.n + 1

\* C4 witness: a reminder failed after a failed attempt with retry_count 3,
\* its earlier failed attempts having left it pending.
C4_Witness ==
    /\ SendFailed /\ ev.n = 3
    /\ notifications[ev.id].status = "failed"
    /\ Len(stats[ev.id].backoffs) = 3

\* C5 as stated: after a failed attempt with retry_count n < 3 the reminder's
\* scheduled_at is the attempt time plus 2^n minutes.
C5_BackoffPowerOfOld ==
    (SendFailed /\ ev.n < 3) =>
        notifications[ev.id].scheduled_at = ev.at + 2 ^ ev.n

\* C5 amended: after a failed attempt with retry_count n < 3 the reminder's
\* scheduled_at is the attempt time plus 2^(n+1) minutes (2, 4, 8).
C5_BackoffPowerOfNew ==
    (SendFailed /\ ev.n < 3) =>
        notifications[ev.id].scheduled_at = ev.at + 2 ^ (ev.n + 1)

\* C5 witness: a failed attempt with retry_count 2, rescheduled 8 minutes later.
C5_Witness ==
    /\ SendFailed /\ ev.n = 2
    /\ notifications[ev.id].scheduled_at = ev.at + 8

\* no dispatcher is between the send and the write for row i
Settled(i) ==
    \A d \in Dispatchers :
        dpc[d] \in {"sleep", "attempt"} \/ Head(batch[d]).id # i

AlwaysFails(i) == stats[i].sends = stats[i].fails

\* C6: the retry scheduled by the k-th failed attempt of a reminder (k = 1, 2, 3)
\* is 2^k minutes after that attempt, and the delays increase strictly with k.
C6_BackoffMonotone ==
    /\ \A i \in 1..Len(stats) :
          LET b == stats[i].backoffs
          IN /\ Len(b) <= 3
             /\ \A k \in 1..Len(b) :
                   /\ b[k] = 2 ^ k
                   /\ k > 1 => b[k - 1] < b[k]
    /\ (SendFailed /\ ev.op = "retry" /\ Settled(ev.id)) =>
          LET k == stats[ev.id].fails
          IN /\ k \in 1..3
             /\ Len(stats[ev.id].backoffs) = k
             /\ notifications[ev.id].scheduled_at = ev.at + 2 ^ k

\* C6 witness: a reminder whose third failed attempt has scheduled its third retry.
C6_Witness ==
    /\ SendFailed /\ ev.op = "retry" /\ Settled(ev.id)
    /\ stats[ev.id].fails = 3 /\ stats[ev.id].sends = 3
    /\ Len(stats[ev.id].backoffs) = 3

\* C7: every row's retry_count is between 0 and 3, also once it is failed.
C7_RetryCountBounded ==
    \A i \in 1..Len(notifications) : notifications[i].retry_count \in 0..3

\* C7 witness: a failed reminder that used all its retries.
C7_Witness ==
    \E i \in 1..Len(notifications) :
        /\ notifications[i].status = "failed"
        /\ notifications[i].retry_count = 3
        /\ stats[i].fails = 4

\* C8 as stated: a reminder whose delivery fails on every attempt is failed
\* right after its 3rd failed attempt, and is never attempted a 4th time.
C8_FailedAfterThree ==
    \A i \in 1..Len(notifications) :
        AlwaysFails(i) =>
            /\ stats[i].sends <= 3
            /\ (stats[i].fails = 3 /\ Settled(i)) => notifications[i].status = "failed"

\* C8 amended: a reminder whose delivery fails (send_text raises) on every
\* attempt is failed right after its 4th failed attempt, the first attempt and
\* three retries, and is never attempted a 5th time.
C8_FailedAfterFour ==
    \A i \in 1..Len(notifications) :
        AlwaysFails(i) =>
            /\ stats[i].sends <= 4
            /\ (stats[i].fails = 4 /\ Settled(i)) => notifications[i].status = "failed"

\* C8 witness: a reminder failed after four attempts that all failed.
C8_Witness ==
    \E i \in 1..Len(notifications) :
        /\ AlwaysFails(i) /\ stats[i].fails = 4 /\ Settled(i)
        /\ notifications[i].status = "failed"

\* C9: a reminder is marked sent only when a send for it succeeded: a send the
\* messaging API answered with an error does not make it sent.
C9_SentOnlyIfDelivered ==
    \A i \in 1..Len(notifications) :
        notifications[i].status = "sent" => stats[i].delivered >= 1

\* C10: with one dispatcher, the message of a reminder row is delivered at most
\* once, also when a table update raises after a successful send.
C10_DeliveredAtMostOnce ==
    \A i \in 1..Len(stats) : stats[i].delivered <= 1

\* C11: when two dispatcher instances run send_due_reminders concurrently on the
\* same table, no reminder's message is delivered more than once, and no step
\* puts a reminder that is sent or failed back to pending.
C11_NoDoubleSendNoReopen ==
    [][\A i \in 1..Len(notifications) :
          /\ stats'[i].delivered <= 1
          /\ notifications[i].status \in {"sent", "failed"}
                => notifications'[i].status # "pending"]_vars

\* C12: when get_phone returns no address for a due reminder, process_reminder
\* makes no send for it and moves it to failed with retry_count and scheduled_at
\* unchanged; afterwards the reminder is not attempted or changed again.
C12_NoAddressFailsDirectly ==
    [][/\ (dpc["d1"] = "attempt" /\ dpc'["d1"] = "mark_failed") => stats' = stats
       /\ (dpc["d1"] = "mark_failed" /\ dpc'["d1"] # "mark_failed") =>
              LET i == Head(batch["d1"]).id
              IN /\ notifications'[i].status = "failed"
                 /\ notifications'[i].retry_count = notifications[i].retry_count
                 /\ notifications'[i].scheduled_at = notifications[i].scheduled_at
                 /\ stats' = stats
       /\ ev.op = "nophone" =>
              /\ notifications[ev.id].status = "failed"
              /\ notifications'[ev.id] = notifications[ev.id]
              /\ stats'[ev.id] = stats[ev.id]]_vars

\* C12 witness: a reminder failed for want of an address at its second attempt,
\* after its scheduled time, with the retry_count its first attempt left.
C12_Witness ==
    /\ ev.op = "nophone" /\ ev.n = 1
    /\ notifications[ev.id].status = "failed"
    /\ notifications[ev.id].retry_count = 1
    /\ notifications[ev.id].scheduled_at < now
    /\ stats[ev.id].sends = 1

\* C13: within one dispatch cycle every reminder of the fetched batch is
\* processed, whatever fails on an earlier one (the send, the address lookup or
\* an update of the notifications table): a step takes from the batch at most
\* the reminder it has processed.
C13_BatchProcessedToEnd ==
    [][\A d \in Dispatchers :
          batch[d] # <<>> => batch'[d] \in {batch[d], Tail(batch[d])}]_vars

\* a store failure ends the cycle of dispatcher d in this step: fetch_due_reminders
\* raises, or an update raises inside the except branch of process_reminder
CycleFails(d) ==
    /\ nfaults' = nfaults + 1
    /\ dpc[d] = "sleep" \/ InExcept(d)

\* C14: no delivery or store failure ends the dispatcher loop: the loop never
\* exits, and a step in which a failure ends the cycle leaves the loop at its
\* sleep, from where the next cycle starts.
C14_LoopSurvivesFailures ==
    [][/\ dpc'["d1"] # "exited"
       /\ CycleFails("d1") => (dpc'["d1"] = "sleep" /\ batch'["d1"] = <<>>)]_vars

\* C14 witness: a cycle started after a cycle that a store failure ended: two
\* store operations raised, yet no reminder was sent or rescheduled, so the
\* failures were not handled within process_reminder.
C14_Witness ==
    /\ nfaults = 2
    /\ dpc["d1"] = "attempt"
    /\ Len(batch["d1"]) = 2
    /\ \A i \in 1..Len(notifications) :
          /\ notifications[i].status = "pending"
          /\ notifications[i].retry_count = 0
          /\ stats[i].sends = 0

\* C15: fetch_due_reminders(limit) returns the first `limit` rows, in ascending
\* scheduled_at order, of the rows that are pending with scheduled_at <= now: as
\* many rows as the limit and the number of such rows allow, each of them pending
\* and due and returned once, and every pending row due earlier than a returned
\* row is returned before it.
C15_FetchFirstDue ==
    LET R == fetched.rows
        D == {i \in 1..Len(notifications) :
                /\ notifications[i].status = "pending"
                /\ notifications[i].scheduled_at <= fetched.at}
    IN fetched.limit > 0 =>
        /\ Len(R) = IF Cardinality(D) < fetched.limit
                    THEN Cardinality(D) ELSE fetched.limit
        /\ \A k \in 1..Len(R) :
              /\ R[k].id \in D
              /\ R[k] = notifications[R[k].id]
              /\ \A l \in 1..Len(R) :
                    /\ R[k].id = R[l].id => k = l
                    /\ k < l => R[k].scheduled_at <= R[l].scheduled_at
              /\ \A i \in D :
                    notifications[i].scheduled_at < R[k].scheduled_at =>
                        \E j \in 1..(k - 1) : R[j].id = i

\* C15 witness: a call whose limit cuts the result: three due pending rows, two
\* returned, the earlier one first, the row left out is not due before them.
C15_Witness ==
    /\ fetched.limit = 2 /\ Len(fetched.rows) = 2
    /\ fetched.rows[1].scheduled_at < fetched.rows[2].scheduled_at
    /\ Cardinality({i \in 1..Len(notifications) :
                      /\ notifications[i].status = "pending"
                      /\ notifications[i].scheduled_at <= fetched.at}) = 3

\* C16: with a single dispatcher, sent and failed are terminal: no step, be it a
\* schedule_reminder call or a step of a dispatch cycle, changes the status,
\* retry_count or scheduled_at of a reminder that is sent or failed, and no send
\* is made for it again.
C16_TerminalStays ==
    [][\A i \in 1..Len(notifications) :
          notifications[i].status \in {"sent", "failed"} =>
              /\ notifications'[i].status = notifications[i].status
              /\ notifications'[i].retry_count = notifications[i].retry_count
              /\ notifications'[i].scheduled_at = notifications[i].scheduled_at
              /\ stats'[i].sends = stats[i].sends]_vars

\* C16 witness: a schedule_reminder call with the key of a reminder that was
\* attempted and is sent or failed; the call has left the table as it was.
C16_Witness ==
    /\ lastCall.op = "schedule" /\ ~lastCall.changed
    /\ \E i \in KeyRows(notifications, lastCall.key) :
          /\ notifications[i].status \in {"sent", "failed"}
          /\ stats[i].sends >= 1

\* C17: under a single dispatcher that keeps cycling, with time advancing and
\* a store that answers, every reminder created pending eventually is sent or
\* failed, whatever the outcomes of its sends and with more reminders due than a
\* cycle takes.
C17_EveryReminderSettles ==
    <>(\A i \in 1..Len(Backlog) : notifications[i].status \in {"sent", "failed"})

\* C17 witness: the backlog is settled; the reminder that the first cycle's cap
\* left out is sent, and another reminder failed after using its retries up.
C17_Witness ==
    /\ \A i \in 1..Len(Backlog) : notifications[i].status \in {"sent", "failed"}
    /\ notifications[Len(Backlog)].status = "sent"
    /\ stats[Len(Backlog)].sends = 1
    /\ \E i \in 1..Len(Backlog) :
          /\ notifications[i].status = "failed"
          /\ notifications[i].retry_count = RETRY_LIMIT
          /\ stats[i].fails = RETRY_LIMIT + 1

\* an advance_state call has completed
Advanced == lastAdvance.requests # <<>>

\* C18: when the transition table of workflow W has no entry for the stored
\* state S and the event E, advance_state(participant, W, E) returns S and the
\* stored state of (participant, W) is S afterwards.
C18_NoEntryKeepsState ==
    (/\ Advanced
     /\ lastAdvance.before # Absent
     /\ ~HasEntry(TableOf(lastAdvance.key[2]), lastAdvance.before, lastAdvance.event)) =>
        /\ lastAdvance.returned = lastAdvance.before
        /\ Stored(conversation_state, lastAdvance.key) = lastAdvance.before

\* C18 witness: a call on claims_upload_workflow with a stored state other than
\* START and an event that the table has for other states only.
C18_Witness ==
    /\ Advanced
    /\ lastAdvance.key[2] = "claims_upload_workflow"
    /\ lastAdvance.before = "WAITING_FOR_RECEIPT"
    /\ lastAdvance.event = "finish"
    /\ Stored(conversation_state, lastAdvance.key) = "WAITING_FOR_RECEIPT"

\* C19: when the stored state is not one of the states the workflow's table
\* declares, advance_state computes the next state from START and the event,
\* returns it and persists it.
C19_ForeignStateRestarts ==
    (/\ Advanced
     /\ TableOf(lastAdvance.key[2]) # {}
     /\ lastAdvance.before # Absent
     /\ lastAdvance.before \notin StatesOf(TableOf(lastAdvance.key[2]))) =>
        LET next == Get(TableOf(lastAdvance.key[2]), "START", lastAdvance.event, "START")
        IN /\ lastAdvance.returned = next
           /\ Stored(conversation_state, lastAdvance.key) = next

\* C20: a completed advance_state call has made exactly one select and exactly
\* one upsert, both on the row of its own key, also when the new state equals
\* the stored one, and has written no other row.
C20_OneReadOneWrite ==
    Advanced =>
        LET q == lastAdvance.requests
        IN /\ Cardinality({k \in 1..Len(q) : q[k].op = "select"}) = 1
           /\ Cardinality({k \in 1..Len(q) : q[k].op = "upsert"}) = 1
           /\ \A k \in 1..Len(q) :
                 q[k].op \in {"select", "upsert"} /\ q[k].key = lastAdvance.key
           /\ Stored(conversation_state, lastAdvance.key) = lastAdvance.returned
           /\ ~lastAdvance.others_written

\* C20 witness: a call that leaves the stored state as it was, while another
\* key has a row.
C20_Witness ==
    /\ Advanced
    /\ lastAdvance.before # Absent
    /\ lastAdvance.returned = lastAdvance.before
    /\ \E k \in Keys \ {lastAdvance.key} : Stored(conversation_state, k) # Absent

\* the workflow names for which backend/fsm.py declares a transition table
DeclaredWorkflows == {w \in Workflows : TableOf(w) # {}}

\* C21: advance_state called with a workflow name that has no declared table
\* gives an explicit UnknownWorkflow outcome: it returns no state, makes no
\* upsert and leaves the conversation_state row of that name as it was.
C21_UnknownWorkflowExplicit ==
    (Advanced /\ lastAdvance.key[2] \notin DeclaredWorkflows) =>
        /\ lastAdvance.returned \notin StoredStates
        /\ \A k \in 1..Len(lastAdvance.requests) : lastAdvance.requests[k].op # "upsert"
        /\ Stored(conversation_state, lastAdvance.key) = lastAdvance.before

\* the state advance_state read for its last call: the stored one, START if none
CurrentOfLast ==
    IF lastAdvance.before = Absent THEN "START" ELSE lastAdvance.before

\* C22: for each of the three declared workflows, step(current_state, event,
\* workflow) is the entry of that workflow's own table for (current_state,
\* event) when there is one.
C22_StepFollowsOwnTable ==
    (/\ Advanced
     /\ lastAdvance.key[2] \in DeclaredWorkflows
     /\ HasEntry(TableOf(lastAdvance.key[2]), CurrentOfLast, lastAdvance.event)) =>
        \E x \in TableOf(lastAdvance.key[2]) :
            /\ x[1] = CurrentOfLast
            /\ x[2] = lastAdvance.event
            /\ x[3] = lastAdvance.returned

\* the last advance_state call was a 'reset' of a declared workflow in one of
\* its states, and the stored state after it is START
ResetReentersStart ==
    (/\ Advanced
     /\ lastAdvance.event = "reset"
     /\ lastAdvance.key[2] \in DeclaredWorkflows
     /\ CurrentOfLast \in StatesOf(TableOf(lastAdvance.key[2]))) =>
        Stored(conversation_state, lastAdvance.key) = "START"

\* C23: for every workflow and every state of it, advance_state with the event
\* 'reset' leaves the stored state equal to START, and no advance_state call
\* deletes a conversation_state row.
C23_ResetToStartNoDelete ==
    [][/\ \A k \in Keys :
             Stored(conversation_state, k) # Absent => Stored(conversation_state', k) # Absent
       /\ ResetReentersStart']_vars

\* C24: after any sequence of get_state and advance_state calls the
\* conversation_state table holds at most one row per key; a get_state call on
\* a key without row returned START and created no row; an advance_state call
\* on a key without row has created its row.
C24_OneRowPerKey ==
    [][/\ \A k \in Keys : Len(conversation_state'[k]) <= 1
       /\ lastGet' # lastGet =>
              /\ conversation_state' = conversation_state
              /\ lastGet'.absent => lastGet'.returned = "START"
       /\ (lastAdvance' # lastAdvance /\ lastAdvance'.before = Absent) =>
              conversation_state'[lastAdvance'.key] = <<lastAdvance'.returned>>]_vars

\* C24 witness: get_state found no row for a key and returned START; then two
\* advance_state calls on that key have created its row and moved it on.
C24_Witness ==
    /\ lastGet.absent /\ lastGet.returned = "START"
    /\ Advanced /\ lastAdvance.key = lastGet.key
    /\ lastAdvance.before = "WAITING_FOR_RECEIPT"
    /\ conversation_state[lastAdvance.key] = <<"RECEIPT_RECEIVED">>

\* C25: in every webhook path that calls advance_state, a reply or an
\* acknowledgement is sent only after advance_state has returned: each such send
\* comes right after the persist it reports, so none is sent when it fails.
C25_ReplyAfterPersist ==
    \A k \in 1..Len(lastHook.trace) :
        lastHook.trace[k].op \in {"reply", "ack"} =>
            k > 1 /\ lastHook.trace[k - 1].op = "persist"

\* C26: a reminder's retry_count is incremented and its scheduled_at pushed
\* forward only when a send for it failed: it has no more retries counted and no
\* more reschedulings than sends that raised, whatever store operations raise.
C26_RetryOnlyOnFailedSend ==
    \A i \in 1..Len(notifications) :
        /\ notifications[i].retry_count <= stats[i].fails
        /\ Len(stats[i].backoffs) <= stats[i].fails

\* C27: when the send for one reminder of a batch gets no response, the
\* dispatcher still comes to the end of that batch (and to its next cycles): a
\* send without response leads to the batch being processed.
C27_NoResponseDoesNotStall ==
    (dpc["d1"] = "blocked") ~> (batch["d1"] = <<>>)


\* C28: in one dispatch cycle process_reminder is called for at most
\* DISPATCH_LIMIT (5) reminders, however many are due and pending, and for no
\* reminder twice.
C28_CycleAttemptsAtMostFiveOnce ==
    \A d \in Dispatchers :
       /\ Len(attempted[d]) <= DISPATCH_LIMIT
       /\ \A j, k \in 1..Len(attempted[d]) :
             j # k => attempted[d][j] # attempted[d][k]

\* a cycle that took five reminders while a sixth was due and pending, and
\* attempted all five
C28_Witness ==
    /\ Len(attempted["d1"]) = DISPATCH_LIMIT
    /\ dpc["d1"] = "mark_sent"
    /\ \E i \in Due(notifications, now) : i \notin {attempted["d1"][k] : k \in 1..DISPATCH_LIMIT}


\* C29: in the claims_upload StateMachine a message of a user in idle moves the
\* user to awaiting_claim_pdf; a document received in awaiting_claim_pdf leaves
\* the user's stored state cleared or idle right after the call; and whatever
\* the calls made, every stored state is one of the declared states.
C29_ClaimsUploadMachine ==
    /\ lastHandle.machine = "claims_upload" =>
          LET u == lastHandle.user_id
          IN /\ lastHandle.before \in {NoEntry, "idle"} =>
                   Session(user_states, u) = "awaiting_claim_pdf"
             /\ (lastHandle.before = "awaiting_claim_pdf" /\ lastHandle.msg.document_id # "") =>
                   Session(user_states, u) \in {NoEntry, "idle"}
    /\ \A u \in DOMAIN user_states : user_states[u] \in claims_upload_workflow.states


\* the state two advance_state calls made one after the other leave
OneAfterTheOther(state, first, second, workflow_name) ==
    step(step(state, first, workflow_name), second, workflow_name)

\* C30: two concurrent advance_state calls on the same (participant, workflow)
\* leave the state that the two events applied one after the other, in one of
\* the two orders, leave: no update is lost.
C30_NoLostUpdate ==
    \A c1, c2 \in Callers :
       (/\ c1 # c2
        /\ advancing[c1].pc = "done" /\ advancing[c2].pc = "done"
        /\ advancing[c1].key = advancing[c2].key) =>
          LET key == advancing[c1].key
              start == get_state(origin, key[1], key[2])
          IN Stored(conversation_state, key) \in
                {OneAfterTheOther(start, advancing[c1].event, advancing[c2].event, key[2]),
                 OneAfterTheOther(start, advancing[c2].event, advancing[c1].event, key[2])}


\* C31: interleaved advance_state calls of different participants do not
\* interfere. A step of a call changes no row but the row of the call's own
\* (participant, workflow); and every key that has no call in flight holds the
\* state its own calls leave when they run alone.
C31_OtherParticipantsUntouched ==
    [][/\ \A k \in Keys :
             conversation_state'[k] # conversation_state[k] =>
                \E c \in Callers : /\ advancing[c].pc = "save"
                                   /\ advancing'[c].pc = "done"
                                   /\ advancing[c].key = k
       /\ \A k \in Keys :
             (\A c \in Callers : advancing'[c].pc = "save" => advancing'[c].key # k) =>
                get_state(conversation_state', k[1], k[2]) = alone'[k]]_vars

\* both participants have a call in flight, the first participant's second
\* call, and both calls then complete
C31_Witness ==
    /\ advancing["c1"].pc = "done" /\ advancing["c2"].pc = "done"
    /\ advancing["c1"].key = <<"p1", "claims_upload_workflow">>
    /\ advancing["c2"].key = <<"p2", "claims_upload_workflow">>
    /\ Stored(conversation_state, <<"p1", "claims_upload_workflow">>) = "RECEIPT_RECEIVED"
    /\ Stored(conversation_state, <<"p2", "claims_upload_workflow">>) = "WAITING_FOR_RECEIPT"


\* the step of the user in machine M: the state handle of M goes on from
Position(us, M, user_id) ==
    IF get_user_state(us, user_id) \in M.states THEN get_user_state(us, user_id) ELSE "idle"

\* C32: the position is kept per (participant, workflow): handling a message in
\* one of the StateMachine workflows leaves the step of every user in the other
\* workflow as it was.
C32_OtherWorkflowKeepsStep ==
    [][\A u \in Participants :
          /\ lastHandle' # lastHandle /\ lastHandle'.machine = "claims_upload" =>
                Position(user_states', visit_prep_workflow, u) =
                   Position(user_states, visit_prep_workflow, u)
          /\ lastHandle' # lastHandle /\ lastHandle'.machine = "visit_prep" =>
                Position(user_states', claims_upload_workflow, u) =
                   Position(user_states, claims_upload_workflow, u)]_vars


\* C33: a dispatcher that was asked to stop stops after its cycle: no reminder
\* of the fetched batch is left unprocessed, and no reminder has a message
\* delivered for it without the status that records it.
C33_StopAfterCycle ==
    \A d \in Dispatchers :
       dpc[d] = "stopped" =>
          /\ batch[d] = <<>>
          /\ \A i \in 1..Len(notifications) :
                stats[i].delivered > 0 => notifications[i].status = "sent"


ClaimsKey == <<"p1", "claims_upload_workflow">>

\* an inbound message that changes the stored state of the claims workflow
ClaimsStateMoves ==
    /\ NextH
    /\ Stored(conversation_state', ClaimsKey) # Stored(conversation_state, ClaimsKey)

\* C34: through the webhook the participant can always get back to START of the
\* claims workflow (and on to DONE): whenever the stored state is not START,
\* some inbound message moves it, so that no state the messages lead to is one
\* the messages cannot leave.
C34_NoTrapState ==
    (nhooks < MaxHooks /\ Stored(conversation_state, ClaimsKey) \notin {Absent, "START"}) =>
        ENABLED ClaimsStateMoves


\* C35: when route_message gets the intent visit_prep for a text, it runs the
\* visit_prep workflow for the sender: the reply is the visit_prep
\* StateMachine's reply for the sender's step, and the sender's step advances
\* as that StateMachine advances it.
C35_VisitPrepRunsForSender ==
    [][(/\ lastRoute' # lastRoute
        /\ lastRoute'.type = "text" /\ lastRoute'.rag_resp = ""
        /\ lastRoute'.intent = "visit_prep") =>
          LET res == handle(user_states, visit_prep_workflow, lastRoute'.sender,
                            lastRoute'.msg)
          IN /\ lastRoute'.reply = res.reply
             /\ user_states' = res.user_states]_vars


\* the pending entry of the sender
Pending(us, sender) == IF sender \in DOMAIN us THEN us[sender] ELSE [visits |-> <<>>]

HasPending(us, sender) == sender \in DOMAIN us

\* the body is no selection of one of the visits: empty, no number, out of range
InvalidSelection(body, visit_list) ==
    \/ StrippedLower(body) = ""
    \/ /\ StrippedLower(body) \notin {"cancel", "stop", "exit"}
       /\ \/ ~int(StrippedLower(body)).ok
          \/ int(StrippedLower(body)).value < 1
          \/ int(StrippedLower(body)).value > Len(visit_list)

\* C36: a sender's pending entry of gateway.py appears only with a media message
\* whose download and visit lookup succeeded; while it exists every message of
\* the sender is handled as a selection; an invalid selection leaves it as it
\* is; it goes only with a cancel, a visit without id or an upload attempt, and
\* always with an upload attempt, successful or not; the entries of the other
\* senders stay as they are.
C36_PendingEntryLifecycle ==
    [][lastGw' # lastGw =>
          LET s == lastGw'.sender
              visit_list == Pending(gw_user_states, s).visits
          IN /\ \A o \in Participants \ {s} :
                   /\ HasPending(gw_user_states', o) = HasPending(gw_user_states, o)
                   /\ Pending(gw_user_states', o) = Pending(gw_user_states, o)
             /\ (~HasPending(gw_user_states, s) /\ HasPending(gw_user_states', s)) =>
                   /\ lastGw'.type \in {"image", "video", "document"}
                   /\ lastGw'.download_ok /\ lastGw'.visits_result.success
             /\ HasPending(gw_user_states, s) =>
                   /\ lastGw'.handler = "selection"
                   /\ InvalidSelection(lastGw'.body, visit_list) =>
                         /\ HasPending(gw_user_states', s)
                         /\ Pending(gw_user_states', s) = Pending(gw_user_states, s)
                   /\ ~HasPending(gw_user_states', s) =>
                         \/ StrippedLower(lastGw'.body) \in {"cancel", "stop", "exit"}
                         \/ lastGw'.upload # "none"
                         \/ /\ int(StrippedLower(lastGw'.body)).ok
                            /\ int(StrippedLower(lastGw'.body)).value \in 1..Len(visit_list)
                            /\ visit_list[int(StrippedLower(lastGw'.body)).value] = ""
             /\ lastGw'.upload # "none" => ~HasPending(gw_user_states', s)]_vars

\* a pending entry of one sender was removed by a failed upload attempt while
\* the other sender's entry is pending
C36_Witness ==
    /\ lastGw.upload = "failed" /\ lastGw.sender = "p1"
    /\ ~HasPending(gw_user_states, "p1")
    /\ HasPending(gw_user_states, "p2")


\* C37: for every message id, is_duplicate returns False to one call only, the
\* first, and True to the later ones, also when callers check the same id
\* concurrently: no id has two calls that returned False, and a call returned
\* True only for an id that a call returned False for.
C37_OneFirstPerMessage ==
    \A id \in MessageIds :
       /\ returned[id].falses <= 1
       /\ returned[id].trues > 0 => returned[id].falses = 1

====
